---- MODULE Spec2Model ----
(***************************************************************************)
(* The scrape / parse / upsert pipeline of vct-status-generator            *)
(* (src/src/scraping/vlr_scraper.py, driven by the commands of             *)
(* src/manage.py) over the SQLAlchemy schema of src/src/core/models.py.    *)
(*                                                                         *)
(* The committed database is the three tables dbMatches, dbPlayers and     *)
(* dbStats.  One command runs at a time on a Session of its own            *)
(* (SessionLocal, autoflush=False): objects added to the session are       *)
(* pending until a flush, a query sees only flushed rows, a rollback       *)
(* throws away everything since the last commit.                           *)
(***************************************************************************)
EXTENDS Integers, Sequences, FiniteSets, TLC

VARIABLES
    dbMatches,     \* committed rows of table matches
    dbPlayers,     \* committed rows of table players
    dbStats,       \* committed rows of table player_match_stats
    pc,            \* position of the running command
    listRuns,      \* scrape-list commands started so far
    detailRuns,    \* scrape-details commands started so far
    exitCode,      \* exit status of the command that last ended
    batch,         \* scrape_matches: all_parsed_matches; detailed_stats
                   \* when a page's rows are fixed for two runs
    idx,           \* index of the next record of the running loop
    log,           \* scrape_matches: the outcome of every record handled;
                   \* save_match_details: the outcome of the last record
    newMatches,    \* session: pending Match objects (added, not flushed)
    dirtyMatches,  \* session: persistent Match objects with unflushed changes
    committed,     \* whether the running command's commit went through
    sess,          \* scrape-details: the session's players and stats
    match_id,      \* save_match_details: match.id
    last,          \* save_match_details: the player_data handled last
    firstRun,      \* the players and stats committed by the first of two
                   \* runs over one page
    call,          \* the arguments of the function under call
    returned       \* what the call returned, once it has

vars == <<dbMatches, dbPlayers, dbStats, pc, listRuns, detailRuns, exitCode,
          batch, idx, log, newMatches, dirtyMatches, committed,
          sess, match_id, last, firstRun, call, returned>>

\* the variables of a single function call; the commands leave them alone
callVars == <<call, returned>>

detailVars == <<sess, match_id, last, firstRun>>

----------------------------------------------------------------------------
(* Bounds *)

MaxListRuns == 2
MaxDetailRuns == 2
MaxRecords == 3

(* Python values: None, and a present value v as Some(v).  A text is a      *)
(* sequence of one-character strings, so the empty text is <<>>.            *)
None == <<>>
Some(v) == <<v>>
Truthy(o) == o # None /\ o[1] # <<>>

Max(S) == IF S = {} THEN 0 ELSE CHOOSE x \in S : \A y \in S : y <= x

----------------------------------------------------------------------------
(* Text *)

Upper(c) ==
    CASE c = "a" -> "A" [] c = "c" -> "C" [] c = "e" -> "E" [] c = "h" -> "H"
      [] c = "i" -> "I" [] c = "m" -> "M" [] c = "n" -> "N"
      [] OTHER -> c

UpperText(t) == [i \in 1..Len(t) |-> Upper(t[i])]

IsSubstring(a, t) ==
    \E k \in 0..(Len(t) - Len(a)) : \A i \in 1..Len(a) : t[k + i] = a[i]

----------------------------------------------------------------------------
(* Reference data and scraped input *)

BASE_URL == "https://vlr.gg"

\* rows of table regions as seed-db inserts them (the first two), by id
Regions ==
    << [id |-> 1, abbreviation |-> Some(<<"N", "A">>)],
       [id |-> 2, abbreviation |-> Some(<<"E", "M", "E", "A">>)] >>

MatchIds == {"450053", "450059"}

TeamA == <<"A">>
TeamB == <<"B">>
Emea == <<"E", "m", "e", "a">>
China == <<"C", "h", "i", "n", "a">>

Content(st, n1, n2, s1, s2, ev) ==
    [status |-> st, team1_name |-> n1, team2_name |-> n2,
     team1_score |-> s1, team2_score |-> s2, event_name |-> ev]

\* what parse_match_list can read off one anchor: the snapshots of a match
\* the list pages are drawn from
ListContents ==
    { Content("Unknown", None, None, None, None, None),
      Content("Upcoming", Some(<<>>), Some(<<>>), None, None, Some(<<>>)),
      Content("Completed", Some(TeamA), Some(TeamB), Some(13), Some(0), Some(Emea)),
      Content("Completed", Some(TeamB), Some(TeamA), Some(0), Some(13), Some(China)) }

\* match_data of parse_match_list for the anchor of match id m
MatchData(m, c) ==
    [match_source_id |-> m, match_url |-> Some(<<BASE_URL, m>>),
     status |-> c.status,
     team1_name |-> c.team1_name, team2_name |-> c.team2_name,
     team1_score |-> c.team1_score, team2_score |-> c.team2_score,
     event_name |-> c.event_name]

\* the lists parse_match_list returns for anchors with the given contents:
\* each match id at most once
Pages(contents) ==
    LET parsed == {MatchData(m, c) : m \in MatchIds, c \in contents}
    IN {p \in UNION {[1..n -> parsed] : n \in 0..Cardinality(MatchIds)} :
          \A i, j \in 1..Len(p) :
              i # j => p[i].match_source_id # p[j].match_source_id}

\* what fetch_html and parse_match_list give for one page: None when the
\* fetch failed
Htmls(contents) == {None} \cup {Some(p) : p \in Pages(contents)}

----------------------------------------------------------------------------
(* Python dict as the sequence of its <<key, value>> items, in insertion    *)
(* order: assigning to a key that is present keeps the key's position.      *)

DictPut(d, k, v) ==
    IF \E i \in 1..Len(d) : d[i][1] = k
    THEN [i \in 1..Len(d) |-> IF d[i][1] = k THEN <<k, v>> ELSE d[i]]
    ELSE Append(d, <<k, v>>)

DictValues(d) == [i \in 1..Len(d) |-> d[i][2]]

RECURSIVE LoadRegionMapping(_, _)
LoadRegionMapping(rows, d) ==
    IF rows = <<>> THEN d
    ELSE LET r == Head(rows)
         IN LoadRegionMapping(Tail(rows),
                IF Truthy(r.abbreviation)
                THEN DictPut(d, UpperText(r.abbreviation[1]), r.id)
                ELSE d)

\* scrape_matches: region_mapping = {r.abbreviation.upper(): r.id ...}
region_mapping == LoadRegionMapping(Regions, <<>>)

\* _scrape_and_parse_page: a failed fetch (html None) gives the empty list
ScrapeAndParsePage(html) == IF html = None THEN <<>> ELSE html[1]

RECURSIVE PutAllMatches(_, _)
PutAllMatches(d, ms) ==
    IF ms = <<>> THEN d
    ELSE PutAllMatches(DictPut(d, Head(ms).match_source_id, Head(ms)), Tail(ms))

\* a merge in which the upcoming page's record is kept for an id on both
MergeKeepingUpcoming(upcoming_matches, completed_matches) ==
    upcoming_matches \o
        SelectSeq(completed_matches,
                  LAMBDA m : \A i \in 1..Len(upcoming_matches) :
                                 upcoming_matches[i].match_source_id # m.match_source_id)

\* scrape_matches: all_matches_dict built from the upcoming page, then
\* overwritten entry by entry from the results page
MergePages(upcoming_matches, completed_matches) ==
    DictValues(PutAllMatches(PutAllMatches(<<>>, upcoming_matches), completed_matches))

\* an inference that keeps the last abbreviation found
DetermineLastRegion(event_name, mapping) ==
    IF ~Truthy(event_name) THEN None
    ELSE LET hits == {i \in 1..Len(mapping) :
                         IsSubstring(mapping[i][1], UpperText(event_name[1]))}
         IN IF hits = {} THEN None
            ELSE Some(mapping[CHOOSE i \in hits : \A j \in hits : j <= i][2])

\* save_basic_match_info: the first abbreviation that occurs in the
\* upper-cased event name
DetermineRegion(event_name, mapping) ==
    IF ~Truthy(event_name) THEN None
    ELSE LET event_name_upper == UpperText(event_name[1])
             hits == {i \in 1..Len(mapping) :
                         /\ mapping[i][1] # <<>>
                         /\ IsSubstring(mapping[i][1], event_name_upper)}
         IN IF hits = {} THEN None
            ELSE Some(mapping[CHOOSE i \in hits : \A j \in hits : i <= j][2])

----------------------------------------------------------------------------
(* The session's view of table matches *)

\* the object the identity map holds for a stored row: its unflushed
\* changes included
SessionMatch(row) ==
    IF \E d \in dirtyMatches : d.id = row.id
    THEN CHOOSE d \in dirtyMatches : d.id = row.id
    ELSE row

\* db_session.query(Match).filter(match_source_id == m).first(): a query
\* reads flushed rows only (autoflush=False)
ExistingMatch(m) ==
    LET rows == {r \in dbMatches : r.match_source_id = m}
    IN IF rows = {} THEN None
       ELSE Some(SessionMatch(CHOOSE r \in rows : \A q \in rows : r.id <= q.id))

\* "if existing.f is None and f is not None: existing.f = f"
FillNotNone(old, new) == IF old = None /\ new # None THEN new ELSE old

\* a variant that takes every incoming value
FillAlways(old, new) == new

\* "if existing.f is None and f: existing.f = f"
FillTruthy(old, new) == IF old = None /\ Truthy(new) THEN new ELSE old

\* a variant that forgets the status
ForgetStatus(old, new) == "Unknown"

\* "if existing_match.status != status: existing_match.status = status"
UpdateStatus(old, new) == IF old # new THEN new ELSE old

\* save_basic_match_info, the branch of a stored match
UpdateExistingMatch(e, d, region) ==
    [e EXCEPT !.status = UpdateStatus(e.status, d.status),
              !.team1_score = FillNotNone(e.team1_score, d.team1_score),
              !.team2_score = FillNotNone(e.team2_score, d.team2_score),
              !.team1_name = FillTruthy(e.team1_name, d.team1_name),
              !.team2_name = FillTruthy(e.team2_name, d.team2_name),
              !.event_name = FillTruthy(e.event_name, d.event_name),
              !.region_id = FillNotNone(e.region_id, region)]

\* save_basic_match_info, the branch of a new match: Match(...) before its
\* flush has no id
NewMatch(d, region) ==
    [match_source_id |-> d.match_source_id, match_url |-> d.match_url,
     status |-> d.status,
     team1_name |-> d.team1_name, team2_name |-> d.team2_name,
     team1_score |-> d.team1_score, team2_score |-> d.team2_score,
     event_name |-> d.event_name, region_id |-> region]

WithId(row, i) ==
    [id |-> i, match_source_id |-> row.match_source_id, match_url |-> row.match_url,
     status |-> row.status,
     team1_name |-> row.team1_name, team2_name |-> row.team2_name,
     team1_score |-> row.team1_score, team2_score |-> row.team2_score,
     event_name |-> row.event_name, region_id |-> row.region_id]

\* a flush that keeps only the rows the session holds
FlushOnlySession(rows, new, dirty) ==
    dirty \cup {WithId(new[i], Max({r.id : r \in rows}) + i) : i \in 1..Len(new)}

\* the flush of a commit: UPDATE the dirty rows, INSERT the pending ones
FlushMatches(rows, new, dirty) ==
    LET kept == {r \in rows : ~\E d \in dirty : d.id = r.id}
        top == Max({r.id : r \in rows})
    IN kept \cup dirty \cup {WithId(new[i], top + i) : i \in 1..Len(new)}

\* matches.match_source_id is unique
MatchConstraintsHold(rows) ==
    \A r, q \in rows : r.match_source_id = q.match_source_id => r = q

----------------------------------------------------------------------------
(* scrape-list: scrape_list_command -> scrape_matches *)

\* lines 266-281: fetch and parse both pages, merge; nothing parsed ends
\* the command
ScrapeMatchesFrom(htmls) ==
    /\ pc = "idle"
    /\ listRuns < MaxListRuns
    /\ \E html1 \in htmls, html2 \in htmls :
          LET all_parsed_matches ==
                  MergePages(ScrapeAndParsePage(html1), ScrapeAndParsePage(html2))
          IN /\ batch' = all_parsed_matches
             /\ pc' = IF all_parsed_matches = <<>> THEN "done" ELSE "scrape_matches"
    /\ listRuns' = listRuns + 1
    /\ idx' = 1
    /\ log' = <<>>
    /\ exitCode' = 0
    /\ committed' = FALSE
    /\ UNCHANGED <<dbMatches, dbPlayers, dbStats, detailRuns, newMatches, dirtyMatches>>
    /\ UNCHANGED detailVars
    /\ UNCHANGED callVars

StartScrapeMatches == ScrapeMatchesFrom(Htmls(ListContents))

\* lines 185-225 for batch[idx], no exception
SaveBasicMatchInfo ==
    /\ pc = "scrape_matches"
    /\ idx <= Len(batch)
    /\ LET match_data == batch[idx]
           region == DetermineRegion(match_data.event_name, region_mapping)
           existing_match == ExistingMatch(match_data.match_source_id)
       IN IF existing_match # None
          THEN LET e == existing_match[1]
                   u == UpdateExistingMatch(e, match_data, region)
               IN /\ dirtyMatches' =
                        IF u = e THEN dirtyMatches
                        ELSE {d \in dirtyMatches : d.id # e.id} \cup {u}
                  /\ UNCHANGED newMatches
          ELSE /\ newMatches' = Append(newMatches, NewMatch(match_data, region))
               /\ UNCHANGED dirtyMatches
    /\ idx' = idx + 1
    /\ log' = Append(log, "saved")
    /\ UNCHANGED <<dbMatches, dbPlayers, dbStats, pc, listRuns, detailRuns,
                   exitCode, batch, committed>>
    /\ UNCHANGED detailVars
    /\ UNCHANGED callVars

\* lines 226-228: the query of batch[idx] raises; the handler rolls the
\* session back and the loop goes on
SaveBasicMatchInfoRaises ==
    /\ pc = "scrape_matches"
    /\ idx <= Len(batch)
    /\ newMatches' = <<>>
    /\ dirtyMatches' = {}
    /\ idx' = idx + 1
    /\ log' = Append(log, "error")
    /\ UNCHANGED <<dbMatches, dbPlayers, dbStats, pc, listRuns, detailRuns,
                   exitCode, batch, committed>>
    /\ UNCHANGED detailVars
    /\ UNCHANGED callVars

\* lines 295-298 and manage.py 214-226: the batch's handler rolls back and
\* returns; only when that rollback raises too does the exception reach
\* scrape_list_command, which exits 1 and closes the session
BatchFailure ==
    /\ \E rollbackRaises \in BOOLEAN : exitCode' = IF rollbackRaises THEN 1 ELSE 0
    /\ newMatches' = <<>>
    /\ dirtyMatches' = {}
    /\ committed' = FALSE
    /\ pc' = "done"
    /\ UNCHANGED <<dbMatches, dbPlayers, dbStats, listRuns, detailRuns, batch>>
    /\ UNCHANGED detailVars
    /\ UNCHANGED callVars

\* the query of batch[idx] raises and the rollback of line 227 raises as
\* well: the exception leaves save_basic_match_info
SaveBasicMatchInfoEscapes ==
    /\ pc = "scrape_matches"
    /\ idx <= Len(batch)
    /\ log' = Append(log, "escaped")
    /\ UNCHANGED idx
    /\ BatchFailure

\* line 293: db_session.commit() goes through
CommitBatch ==
    /\ pc = "scrape_matches"
    /\ idx > Len(batch)
    /\ LET flushed == FlushMatches(dbMatches, newMatches, dirtyMatches)
       IN /\ MatchConstraintsHold(flushed)
          /\ dbMatches' = flushed
    /\ newMatches' = <<>>
    /\ dirtyMatches' = {}
    /\ committed' = TRUE
    /\ pc' = "done"
    /\ UNCHANGED <<dbPlayers, dbStats, listRuns, detailRuns, exitCode, batch, idx, log>>
    /\ UNCHANGED detailVars
    /\ UNCHANGED callVars

\* line 293: db_session.commit() raises
CommitBatchRaises ==
    /\ pc = "scrape_matches"
    /\ idx > Len(batch)
    /\ UNCHANGED <<idx, log>>
    /\ BatchFailure

----------------------------------------------------------------------------
(* _safe_cast.  An int is a TLA+ integer; a float is <<m, e>>, the number *)
(* m / 10^e with e as small as it can be; a str is a text.                 *)

MaxTextLen == 3

DecimalDigits == {"0", "1", "2", "3", "4", "5", "6", "7", "8", "9"}

\* a character str.isdigit() accepts and int() and float() reject, such as
\* the superscript two
SuperscriptTwo == "sup2"

\* str.isdigit(): not empty and every character is a digit
IsDigit(t) ==
    /\ t # <<>>
    /\ \A i \in 1..Len(t) : t[i] \in DecimalDigits \cup {SuperscriptTwo}

Whitespace == {" "}

RECURSIVE LStrip(_)
LStrip(t) == IF t # <<>> /\ Head(t) \in Whitespace THEN LStrip(Tail(t)) ELSE t

RECURSIVE RStrip(_)
RStrip(t) ==
    IF t # <<>> /\ t[Len(t)] \in Whitespace THEN RStrip(SubSeq(t, 1, Len(t) - 1)) ELSE t

\* str.strip()
Strip(t) == RStrip(LStrip(t))

\* str.replace(c, '')
Remove(t, c) == SelectSeq(t, LAMBDA x : x # c)

\* str.replace('.', '', 1)
RemoveFirstDot(t) ==
    IF \E i \in 1..Len(t) : t[i] = "."
    THEN LET k == CHOOSE i \in 1..Len(t) : t[i] = "." /\ \A j \in 1..(i - 1) : t[j] # "."
         IN SubSeq(t, 1, k - 1) \o SubSeq(t, k + 1, Len(t))
    ELSE t

\* str.startswith(c) and the slice t[n:]
StartsWith(t, c) == t # <<>> /\ Head(t) = c
From(t, n) == SubSeq(t, n + 1, Len(t))

DigitValue(c) ==
    CASE c = "0" -> 0 [] c = "1" -> 1 [] c = "2" -> 2 [] c = "3" -> 3 [] c = "4" -> 4
      [] c = "5" -> 5 [] c = "6" -> 6 [] c = "7" -> 7 [] c = "8" -> 8 [] c = "9" -> 9

RECURSIVE DecimalValue(_)
DecimalValue(t) ==
    IF t = <<>> THEN 0
    ELSE 10 * DecimalValue(SubSeq(t, 1, Len(t) - 1)) + DigitValue(t[Len(t)])

Decimal(t) == t # <<>> /\ \A i \in 1..Len(t) : t[i] \in DecimalDigits

\* the outcome of an expression: the value it gives, or the exception it
\* raises
Gives(o) == [error |-> "", value |-> o]
Ok(v) == Gives(Some(v))
Raise(e) == [error |-> e, value |-> None]

\* int(text): an optional sign and decimal digits, ValueError otherwise
PyInt(t) ==
    IF StartsWith(t, "-") /\ Decimal(From(t, 1)) THEN Ok(0 - DecimalValue(From(t, 1)))
    ELSE IF StartsWith(t, "+") /\ Decimal(From(t, 1)) THEN Ok(DecimalValue(From(t, 1)))
    ELSE IF Decimal(t) THEN Ok(DecimalValue(t))
    ELSE Raise("ValueError")

RECURSIVE Normalized(_, _)
Normalized(m, e) ==
    IF e > 0 /\ m % 10 = 0 THEN Normalized(m \div 10, e - 1) ELSE <<m, e>>

\* float(text): an optional sign, decimal digits with at most one point and
\* at least one digit, ValueError otherwise
PyFloat(t) ==
    LET signed == StartsWith(t, "-") \/ StartsWith(t, "+")
        body == IF signed THEN From(t, 1) ELSE t
        digits == RemoveFirstDot(body)
        exponent == IF digits = body THEN 0
                    ELSE Len(body) - (CHOOSE i \in 1..Len(body) : body[i] = ".")
        magnitude == Normalized(DecimalValue(digits), exponent)
    IN IF Decimal(digits)
       THEN Ok(IF StartsWith(t, "-") THEN <<0 - magnitude[1], magnitude[2]>> ELSE magnitude)
       ELSE Raise("ValueError")

RECURSIVE DigitsOf(_)
DigitsOf(n) ==
    LET d == CHOOSE c \in DecimalDigits : DigitValue(c) = n % 10
    IN IF n < 10 THEN <<d>> ELSE Append(DigitsOf(n \div 10), d)

\* str(n) of an int
PyStr(n) == IF n < 0 THEN <<"-">> \o DigitsOf(0 - n) ELSE DigitsOf(n)

\* "except (ValueError, TypeError): return default"
Catch(outcome, default) ==
    IF outcome.error \in {"ValueError", "TypeError"} THEN Gives(default) ELSE outcome

\* "elif cast_type is str: return cleaned_value"
CastStr(cleaned_value, default) == Ok(cleaned_value)

\* an integer branch that converts whatever it is given
CastIntUnguarded(cleaned_value, default) == PyInt(cleaned_value)

\* "if cast_type is int: ..."
CastInt(cleaned_value, default) ==
    IF StartsWith(cleaned_value, "-") /\ IsDigit(From(cleaned_value, 1))
    THEN PyInt(cleaned_value)
    ELSE IF IsDigit(cleaned_value) THEN PyInt(cleaned_value)
    ELSE Gives(default)

\* "elif cast_type is float: ..."
CastFloat(cleaned_value, default) ==
    IF \/ StartsWith(cleaned_value, "-") /\ IsDigit(RemoveFirstDot(From(cleaned_value, 1)))
       \/ IsDigit(RemoveFirstDot(cleaned_value))
    THEN PyFloat(cleaned_value)
    ELSE IF StartsWith(cleaned_value, ".") /\ IsDigit(From(cleaned_value, 1))
    THEN PyFloat(<<"0">> \o cleaned_value)
    ELSE IF /\ Len(cleaned_value) >= 2
            /\ SubSeq(cleaned_value, 1, 2) = <<"-", ".">>
            /\ IsDigit(From(cleaned_value, 2))
    THEN PyFloat(<<"-", "0">> \o From(cleaned_value, 1))
    ELSE Gives(default)

\* the cleaning of lines 31-34
Cleaned(text, cast_type) ==
    LET cleaned_value == Strip(Remove(Remove(Strip(text), "%"), "/"))
    IN IF cast_type \in {"int", "float"} /\ StartsWith(cleaned_value, "+")
       THEN From(cleaned_value, 1)
       ELSE cleaned_value

\* _safe_cast(value, cast_type, default) for a value that is None or a str:
\* what it returns, or the exception that leaves it
SafeCast(value, cast_type, default) ==
    IF value = None THEN Gives(default)
    ELSE LET cleaned_value == Cleaned(value[1], cast_type)
         IN Catch(CASE cast_type = "int" -> CastInt(cleaned_value, default)
                    [] cast_type = "float" -> CastFloat(cleaned_value, default)
                    [] cast_type = "str" -> CastStr(cleaned_value, default)
                    [] OTHER -> Gives(default),
                  default)

\* _safe_cast for a value that is an int: str(value) is its decimal text
SafeCastOfInt(n, cast_type, default) == SafeCast(Some(PyStr(n)), cast_type, default)

----------------------------------------------------------------------------
(* scrape-details: the parsed rows of a match's detail page *)

PlayerP == <<"p">>
PlayerQ == <<"q">>
SourceId1 == <<"1">>
SourceId2 == <<"2">>

\* player_stats of parse_match_details for one table row
PlayerData(name, source_id, kills) ==
    [player_name |-> name, player_source_id |-> source_id, kills |-> kills]

\* the rows a page may hold: with and without a name, with and without an
\* id, the same name under two ids, the same id under two names, and one
\* player with two different stat lines
DetailRecords ==
    { PlayerData(Some(PlayerP), Some(SourceId1), Some(18)),
      PlayerData(Some(PlayerP), Some(SourceId1), Some(37)),
      PlayerData(Some(PlayerQ), Some(SourceId2), Some(18)),
      PlayerData(Some(PlayerP), None, Some(18)),
      PlayerData(Some(PlayerP), Some(SourceId2), Some(18)),
      PlayerData(Some(PlayerQ), Some(SourceId1), Some(18)),
      PlayerData(None, Some(SourceId1), Some(18)),
      PlayerData(None, None, Some(18)) }

\* save_match_details: the columns of PlayerMatchStats a record may fill
allowed_keys ==
    {"team_name", "agent", "rating", "acs", "kills", "deaths", "assists",
     "kill_death_difference", "adr", "kast_percentage", "headshot_percentage",
     "first_kills", "first_deaths", "first_kill_first_death_difference"}

StatsPayload(player_data) ==
    [key \in allowed_keys \cap DOMAIN player_data |-> player_data[key]]

----------------------------------------------------------------------------
(* The session of scrape-details: players and stats are the rows the        *)
(* transaction sees (committed or flushed), pend the PlayerMatchStats       *)
(* objects added and not yet flushed, dirty the Player objects with an      *)
(* unflushed change.                                                        *)

NoSession == [players |-> {}, stats |-> {}, pend |-> <<>>, dirty |-> {}]

OpenSession == [players |-> dbPlayers, stats |-> dbStats, pend |-> <<>>, dirty |-> {}]

\* db_session.rollback(): back to the committed rows, pending objects expunged
Rollback(S) == OpenSession

SessionPlayer(S, row) ==
    IF \E d \in S.dirty : d.id = row.id
    THEN CHOOSE d \in S.dirty : d.id = row.id
    ELSE row

\* a players table without constraints
NoPlayerConstraint(rows) == TRUE

\* players.player_source_id and players.name are NOT NULL,
\* players.player_source_id is unique
PlayerConstraintsHold(rows) ==
    /\ \A r \in rows : r.player_source_id # None /\ r.name # None
    /\ \A r, q \in rows : r.player_source_id = q.player_source_id => r = q

\* a player_match_stats table without constraints
NoStatsConstraint(rows) == TRUE

\* _player_match_uc: player_match_stats (player_id, match_id) is unique
StatsConstraintsHold(rows) ==
    \A r, q \in rows : (r.player_id = q.player_id /\ r.match_id = q.match_id) => r = q

\* what a flush writes: UPDATE the dirty players, INSERT the new players
\* and the pending stats
FlushedPlayers(S, new) ==
    LET kept == {r \in S.players : ~\E d \in S.dirty : d.id = r.id}
        top == Max({r.id : r \in S.players})
    IN kept \cup S.dirty
         \cup {[id |-> top + i, name |-> new[i].name,
                player_source_id |-> new[i].player_source_id] : i \in 1..Len(new)}

FlushedStats(S) ==
    LET top == Max({r.id : r \in S.stats})
    IN S.stats
         \cup {[id |-> top + i, player_id |-> S.pend[i].player_id,
                match_id |-> S.pend[i].match_id,
                payload |-> S.pend[i].payload] : i \in 1..Len(S.pend)}

\* db_session.flush() with the Player objects of new added: it goes through
\* when no constraint is violated, and raises otherwise
Flush(S, new) ==
    LET players == FlushedPlayers(S, new)
        stats == FlushedStats(S)
    IN IF PlayerConstraintsHold(players) /\ StatsConstraintsHold(stats)
       THEN [ok |-> TRUE,
             session |-> [players |-> players, stats |-> stats,
                          pend |-> <<>>, dirty |-> {}]]
       ELSE [ok |-> FALSE, session |-> S]

\* select(Player).where(Player.player_source_id == ...): flushed rows only
PlayersBySourceId(S, source_id) ==
    {r \in S.players : r.player_source_id = source_id}

\* a lookup by name that finds nobody
NoPlayersByName(S, name) == {}

\* select(Player).where(Player.name == ...)
PlayersByName(S, name) == {r \in S.players : r.name = name}

FirstRow(rows) == CHOOSE r \in rows : \A q \in rows : r.id <= q.id

\* _get_or_create_player: the player (None when there is none) and the
\* session it leaves
GetOrCreatePlayer(S, player_name, player_source_id) ==
    IF ~Truthy(player_source_id) /\ ~Truthy(player_name)
    THEN [player |-> None, session |-> S, flushed |-> "no"]
    ELSE
    LET by_id == IF Truthy(player_source_id)
                 THEN PlayersBySourceId(S, player_source_id) ELSE {}
        by_name == IF by_id = {} /\ Truthy(player_name)
                   THEN PlayersByName(S, player_name) ELSE {}
    IN IF by_id # {}
       THEN [player |-> Some(SessionPlayer(S, FirstRow(by_id))),
             session |-> S, flushed |-> "no"]
       ELSE IF by_name # {}
       THEN LET player == SessionPlayer(S, FirstRow(by_name))
            IN IF Truthy(player_source_id) /\ player.player_source_id = None
               THEN LET filled == [player EXCEPT !.player_source_id = player_source_id]
                    IN [player |-> Some(filled),
                        session |-> [S EXCEPT !.dirty =
                            {d \in S.dirty : d.id # player.id} \cup {filled}],
                        flushed |-> "no"]
               ELSE [player |-> Some(player), session |-> S, flushed |-> "no"]
       ELSE IF Truthy(player_name)
       THEN LET new_player == [name |-> player_name,
                               player_source_id |-> player_source_id]
                f == Flush(S, <<new_player>>)
            IN IF f.ok
               THEN [player |-> Some(FirstRow({r \in f.session.players :
                                   \A q \in f.session.players : q.id <= r.id})),
                     session |-> f.session, flushed |-> "yes"]
               ELSE [player |-> None, session |-> Rollback(S), flushed |-> "failed"]
       ELSE [player |-> None, session |-> S, flushed |-> "no"]

\* select(exists().where(player_id == ..., match_id == ...)): flushed rows
StatExists(S, player_id, mid) ==
    \E r \in S.stats : r.player_id = player_id /\ r.match_id = mid

\* save_match_details, one turn of the loop over detailed_stats
SaveStats(S, mid, player_data) ==
    IF ~Truthy(player_data.player_name) /\ ~Truthy(player_data.player_source_id)
    THEN [session |-> S, outcome |-> "skipped"]
    ELSE
    LET g == GetOrCreatePlayer(S, player_data.player_name, player_data.player_source_id)
    IN IF g.player = None
       THEN [session |-> g.session,
             outcome |-> IF g.flushed = "failed" THEN "flush_failed" ELSE "no_player"]
       ELSE IF ~StatExists(g.session, g.player[1].id, mid)
       THEN [session |-> [g.session EXCEPT !.pend =
                 Append(@, [player_id |-> g.player[1].id, match_id |-> mid,
                            payload |-> StatsPayload(player_data)])],
             outcome |-> "added"]
       ELSE [session |-> g.session, outcome |-> "existing"]

----------------------------------------------------------------------------
(* scrape-details: scrape_details_command -> scrape_single_match_details *)

\* select(Match).where(Match.match_source_id == ...).scalar_one_or_none()
StoredMatch(m) ==
    LET rows == {r \in dbMatches : r.match_source_id = m}
    IN IF rows = {} THEN None ELSE Some(FirstRow(rows))

\* lines 578-587 and 501-503: the match is looked up, its page fetched and
\* parsed; any of the four early returns ends the command
ScrapeSingleMatchDetails ==
    /\ pc = "idle"
    /\ detailRuns < MaxDetailRuns
    /\ \E m \in MatchIds, fetched \in BOOLEAN, parsed \in BOOLEAN :
          LET match == StoredMatch(m)
          IN IF match = None \/ ~Truthy(match[1].match_url) \/ ~fetched \/ ~parsed
             THEN /\ pc' = "done"
                  /\ UNCHANGED <<sess, match_id>>
             ELSE /\ pc' = "save_match_details"
                  /\ sess' = OpenSession
                  /\ match_id' = match[1].id
    /\ detailRuns' = detailRuns + 1
    /\ idx' = 1
    /\ log' = <<>>
    /\ exitCode' = 0
    /\ committed' = FALSE
    /\ UNCHANGED <<dbMatches, dbPlayers, dbStats, listRuns, batch, newMatches,
                   dirtyMatches, last, firstRun>>
    /\ UNCHANGED callVars

\* lines 504-563 for one record of detailed_stats
SaveRecord(player_data) ==
    /\ LET r == SaveStats(sess, match_id, player_data)
       IN /\ sess' = r.session
          /\ log' = <<r.outcome>>
          /\ last' = Some(player_data)
    /\ idx' = idx + 1
    /\ UNCHANGED <<dbMatches, dbPlayers, dbStats, pc, listRuns, detailRuns,
                   exitCode, batch, newMatches, dirtyMatches, committed, match_id,
                   firstRun>>
    /\ UNCHANGED callVars

\* the loop's next turn, over any record a page may hold
SaveMatchDetails ==
    /\ pc = "save_match_details"
    /\ batch = <<>>
    /\ idx <= MaxRecords
    /\ \E player_data \in DetailRecords : SaveRecord(player_data)

\* a save_match_details that marks the match it has the details of
MatchMarkedDetailed(match) == {[match EXCEPT !.status = "Detailed"]}

\* the Match objects save_match_details leaves changed in the session: it
\* reads match.id and match.match_source_id and assigns nothing
MatchesAssigned(match) == {}

\* lines 564-567: the list is at its end and db_session.commit() goes through
CommitMatchDetails ==
    /\ pc = "save_match_details"
    /\ idx > 1
    /\ idx > Len(batch)
    /\ Flush(sess, <<>>).ok
    /\ dbPlayers' = Flush(sess, <<>>).session.players
    /\ dbStats' = Flush(sess, <<>>).session.stats
    /\ sess' = Flush(sess, <<>>).session
    /\ dbMatches' = FlushMatches(dbMatches, <<>>,
                       MatchesAssigned(CHOOSE r \in dbMatches : r.id = match_id))
    /\ committed' = TRUE
    /\ pc' = "done"
    /\ UNCHANGED <<listRuns, detailRuns, exitCode, batch, idx, log,
                   newMatches, dirtyMatches, match_id, last, firstRun>>
    /\ UNCHANGED callVars

\* lines 568-570: the commit's flush violates a constraint; rollback
CommitMatchDetailsRaises ==
    /\ pc = "save_match_details"
    /\ idx > 1
    /\ idx > Len(batch)
    /\ ~Flush(sess, <<>>).ok
    /\ sess' = Rollback(sess)
    /\ committed' = FALSE
    /\ pc' = "done"
    /\ UNCHANGED <<dbMatches, dbPlayers, dbStats, listRuns, detailRuns, exitCode,
                   batch, idx, log, newMatches, dirtyMatches, match_id, last,
                   firstRun>>
    /\ UNCHANGED callVars

----------------------------------------------------------------------------
\* the command ends: its session is closed
Return ==
    /\ pc = "done"
    /\ pc' = "idle"
    /\ batch' = <<>>
    /\ idx' = 1
    /\ log' = <<>>
    /\ newMatches' = <<>>
    /\ dirtyMatches' = {}
    /\ committed' = FALSE
    /\ exitCode' = 0
    /\ sess' = NoSession
    /\ match_id' = 0
    /\ last' = None
    /\ UNCHANGED <<dbMatches, dbPlayers, dbStats, listRuns, detailRuns, firstRun>>
    /\ UNCHANGED callVars

----------------------------------------------------------------------------

Init ==
    /\ dbMatches = {}
    /\ dbPlayers = {}
    /\ dbStats = {}
    /\ pc = "idle"
    /\ listRuns = 0
    /\ detailRuns = 0
    /\ exitCode = 0
    /\ batch = <<>>
    /\ idx = 1
    /\ log = <<>>
    /\ newMatches = <<>>
    /\ dirtyMatches = {}
    /\ committed = FALSE
    /\ sess = NoSession
    /\ match_id = 0
    /\ last = None
    /\ firstRun = None
    /\ call = None
    /\ returned = None

\* scrape-list commands, from the empty database
Next ==
    \/ StartScrapeMatches
    \/ SaveBasicMatchInfo
    \/ SaveBasicMatchInfoRaises
    \/ SaveBasicMatchInfoEscapes
    \/ CommitBatch
    \/ CommitBatchRaises
    \/ Return

Spec == Init /\ [][Next]_vars

----------------------------------------------------------------------------
(* Properties of save_basic_match_info and scrape_matches *)

\* a turn of the loop in which save_basic_match_info finds batch[idx]
\* stored and returns without an exception
SavedExisting ==
    /\ pc = "scrape_matches"
    /\ idx <= Len(batch)
    /\ idx' = idx + 1
    /\ log' = Append(log, "saved")
    /\ ExistingMatch(batch[idx].match_source_id) # None

\* the session's match m after the step
MatchAfter(m) ==
    LET row == CHOOSE r \in dbMatches' : r.match_source_id = m
    IN IF \E d \in dirtyMatches' : d.id = row.id
       THEN CHOOSE d \in dirtyMatches' : d.id = row.id
       ELSE row

FilledIfNonNull(old, new, after) ==
    after = IF old = None /\ new # None THEN new ELSE old

FilledIfNonEmpty(old, new, after) ==
    after = IF old = None /\ new # None /\ new # Some(<<>>) THEN new ELSE old

C4_UnknownKeepsStatus ==
    [][SavedExisting =>
        LET d == batch[idx]
            e == ExistingMatch(d.match_source_id)[1]
            a == MatchAfter(d.match_source_id)
        IN a.status = IF d.status # e.status /\ d.status # "Unknown"
                      THEN d.status ELSE e.status]_vars

\* C5 as stated: a committed 'Completed' status is 'Completed' in every
\* later committed state
C5_CompletedForever ==
    [][\A r \in dbMatches : r.status = "Completed" =>
          \A q \in dbMatches' : q.id = r.id => q.status = "Completed"]_vars

\* C5 amended: a match committed as 'Completed' stays stored, and its
\* committed status changes only in a batch that holds a record of that
\* match with another status, and then to that record's status
C5_CompletedUntilObservedOtherwise ==
    [][\A r \in dbMatches : r.status = "Completed" =>
          /\ \E q \in dbMatches' : q.id = r.id
          /\ \A q \in dbMatches' : (q.id = r.id /\ q.status # "Completed") =>
                \E i \in 1..Len(batch) :
                   /\ batch[i].match_source_id = r.match_source_id
                   /\ batch[i].status = q.status]_vars

\* a match stored with its final score is committed as 'Upcoming' by a
\* batch that observed it so
C5_Witness ==
    /\ pc = "done"
    /\ committed
    /\ \E r \in dbMatches : \E i \in 1..Len(batch) :
          /\ batch[i].match_source_id = r.match_source_id
          /\ batch[i].status = "Upcoming"
          /\ r.status = "Upcoming"
          /\ r.team1_score = Some(13)

\* C6 as stated: after the batch's commit the match of every record that
\* save_basic_match_info handled without an exception is in the table
C6_OnlyFailedRecordLost ==
    (pc = "done" /\ committed) =>
        \A i \in 1..Len(log) : log[i] = "saved" =>
            \E r \in dbMatches : r.match_source_id = batch[i].match_source_id

\* C7 as stated: a batch that did not commit leaves nothing of it in the
\* session and ends the command with a non-zero exit status
C7_FailureExitsNonZero ==
    (pc = "done" /\ batch # <<>> /\ ~committed) =>
        (newMatches = <<>> /\ dirtyMatches = {} /\ exitCode # 0)

\* C11: no two committed Match rows share a match_source_id, and a
\* committed Match row is in every later committed state under the id and
\* match_source_id it has
C11_MatchesUniqueNeverDeleted ==
    [][/\ \A r, q \in dbMatches' :
             r.match_source_id = q.match_source_id => r = q
       /\ \A r \in dbMatches : \E q \in dbMatches' :
             q.id = r.id /\ q.match_source_id = r.match_source_id]_vars

\* a second scrape-list met a stored match again, next to a new one, and
\* committed: the stored row is still there with the name it had
C11_Witness ==
    /\ pc = "done"
    /\ committed
    /\ listRuns = 2
    /\ Len(batch) = 2
    /\ Cardinality(dbMatches) = 2
    /\ \E r \in dbMatches : \E i \in 1..2 :
          /\ r.id = 1
          /\ batch[i].match_source_id = r.match_source_id
          /\ batch[i].team1_name = Some(TeamB)
          /\ r.team1_name = Some(TeamA)
    /\ \E r \in dbMatches : r.id = 2

(* scrape-details commands.  They read of the matches table only the id    *)
(* and the URL of the match asked for and write only players and           *)
(* player_match_stats, which scrape-list never touches, so they start from *)
(* the matches an earlier scrape-list has committed.                       *)
StoredMatches ==
    LET c == Content("Completed", Some(TeamA), Some(TeamB), Some(13), Some(0), Some(Emea))
        first == WithId(NewMatch(MatchData("450053", c),
                                 DetermineRegion(c.event_name, region_mapping)), 1)
        second == WithId(NewMatch(MatchData("450059", c),
                                  DetermineRegion(c.event_name, region_mapping)), 2)
    IN {{first}, {first, second}}

InitDetails ==
    /\ dbMatches \in StoredMatches
    /\ dbPlayers = {}
    /\ dbStats = {}
    /\ pc = "idle"
    /\ listRuns = 0
    /\ detailRuns = 0
    /\ exitCode = 0
    /\ batch = <<>>
    /\ idx = 1
    /\ log = <<>>
    /\ newMatches = <<>>
    /\ dirtyMatches = {}
    /\ committed = FALSE
    /\ sess = NoSession
    /\ match_id = 0
    /\ last = None
    /\ firstRun = None
    /\ call = None
    /\ returned = None

NextDetails ==
    \/ ScrapeSingleMatchDetails
    \/ SaveMatchDetails
    \/ CommitMatchDetails
    \/ CommitMatchDetailsRaises
    \/ Return

SpecDetails == InitDetails /\ [][NextDetails]_vars

(* scrape-details run twice for one stored match over one detail page:   *)
(* batch is the page's parsed rows, the same in both runs.                 *)
RECURSIVE Lists(_)
Lists(n) ==
    IF n = 0 THEN {<<>>}
    ELSE Lists(n - 1) \cup
         {Append(l, r) : l \in {k \in Lists(n - 1) : Len(k) = n - 1}, r \in DetailRecords}

\* the first run: lines 578-587 with the match stored, the page fetched and
\* rows parsed from it
ScrapeParsedDetails ==
    /\ pc = "idle"
    /\ detailRuns = 0
    /\ \E m \in MatchIds, detailed_stats \in Lists(MaxRecords) :
          /\ StoredMatch(m) # None
          /\ Truthy(StoredMatch(m)[1].match_url)
          /\ detailed_stats # <<>>
          /\ batch' = detailed_stats
          /\ match_id' = StoredMatch(m)[1].id
    /\ pc' = "save_match_details"
    /\ sess' = OpenSession
    /\ detailRuns' = 1
    /\ idx' = 1
    /\ log' = <<>>
    /\ exitCode' = 0
    /\ committed' = FALSE
    /\ UNCHANGED <<dbMatches, dbPlayers, dbStats, listRuns, newMatches,
                   dirtyMatches, last, firstRun>>
    /\ UNCHANGED callVars

\* the second run, for the same match and the same rows
ScrapeParsedDetailsAgain ==
    /\ pc = "done"
    /\ detailRuns = 1
    /\ firstRun' = Some([players |-> dbPlayers, stats |-> dbStats])
    /\ pc' = "save_match_details"
    /\ sess' = OpenSession
    /\ detailRuns' = 2
    /\ idx' = 1
    /\ log' = <<>>
    /\ last' = None
    /\ exitCode' = 0
    /\ committed' = FALSE
    /\ UNCHANGED <<dbMatches, dbPlayers, dbStats, listRuns, batch, newMatches,
                   dirtyMatches, match_id>>
    /\ UNCHANGED callVars

\* the loop's next turn, over the page's rows
SaveParsedDetails ==
    /\ pc = "save_match_details"
    /\ idx <= Len(batch)
    /\ SaveRecord(batch[idx])

NextRerun ==
    \/ ScrapeParsedDetails
    \/ SaveParsedDetails
    \/ CommitMatchDetails
    \/ CommitMatchDetailsRaises
    \/ ScrapeParsedDetailsAgain

SpecRerun == InitDetails /\ [][NextRerun]_vars

----------------------------------------------------------------------------
(* Properties of save_match_details and _get_or_create_player *)

\* a turn of the loop of save_match_details
SavedRecord ==
    /\ pc = "save_match_details"
    /\ pc' = "save_match_details"
    /\ idx' = idx + 1
    /\ last' # None

\* C1 as stated: after the second run over the same match and page the
\* committed players and player_match_stats are those the first run left
C1_SecondRunChangesNothing ==
    (pc = "done" /\ firstRun # None) =>
        (dbPlayers = firstRun[1].players /\ dbStats = firstRun[1].stats)

\* C2: the committed player_match_stats hold at most one row per
\* (player, match) pair, and a committed row stays as it is through every
\* later ingestion
C2_UniquePairImmutable ==
    [][/\ \A r, q \in dbStats' :
             (r.player_id = q.player_id /\ r.match_id = q.match_id) => r = q
       /\ \A r \in dbStats : r \in dbStats']_vars

\* a later run met a committed pair with another stat line and committed,
\* the row keeping its first values
C2_Witness ==
    /\ pc = "done"
    /\ committed
    /\ detailRuns = 2
    /\ log = <<"existing">>
    /\ last # None
    /\ last[1].kills = Some(37)
    /\ \E r \in dbStats : \E p \in dbPlayers :
          /\ r.match_id = match_id
          /\ r.player_id = p.id
          /\ p.player_source_id = last[1].player_source_id
          /\ r.payload.kills = Some(18)

\* C8 as stated: a record whose player cannot be flushed costs only
\* itself: the players created and the stats rows added for the records
\* before it stay in the session for the commit
C8_OnlyFailedRecordDiscarded ==
    [][(SavedRecord /\ log' = <<"flush_failed">>) =>
          /\ sess'.pend = sess.pend
          /\ \A r \in sess.stats : r \in sess'.stats
          /\ \A r \in sess.players : r \in sess'.players]_vars

\* C9 as stated: a record with a display name and no external id that
\* matches no stored player gets a new Player with a null external id and a
\* stats row referencing it
C9_NameOnlyRecordCreatesPlayer ==
    [][(/\ SavedRecord
        /\ Truthy(last'[1].player_name)
        /\ last'[1].player_source_id = None
        /\ PlayersByName(sess, last'[1].player_name) = {}) =>
          /\ log' = <<"added">>
          /\ \E p \in sess'.players :
                /\ p.name = last'[1].player_name
                /\ p.player_source_id = None
                /\ \E i \in 1..Len(sess'.pend) : sess'.pend[i].player_id = p.id]_vars

\* _get_or_create_player on a session that holds a player without an
\* external id, for a record with that name and an id no player has
BackfillOnNullId ==
    LET stored == [id |-> 1, name |-> Some(PlayerP), player_source_id |-> None]
        filled == [id |-> 1, name |-> Some(PlayerP),
                   player_source_id |-> Some(SourceId1)]
        S == [players |-> {stored}, stats |-> {}, pend |-> <<>>, dirty |-> {}]
        g == GetOrCreatePlayer(S, Some(PlayerP), Some(SourceId1))
    IN g.player = Some(filled) /\ g.session.dirty = {filled}

----------------------------------------------------------------------------
(* Single calls of the pure functions: call holds the arguments, returned  *)
(* is None until the function has returned.                                *)

commandVars == <<dbMatches, dbPlayers, dbStats, pc, listRuns, detailRuns, exitCode,
                 batch, idx, log, newMatches, dirtyMatches, committed,
                 sess, match_id, last, firstRun>>

\* no command has run
NoCommand ==
    /\ dbMatches = {}
    /\ dbPlayers = {}
    /\ dbStats = {}
    /\ pc = "idle"
    /\ listRuns = 0
    /\ detailRuns = 0
    /\ exitCode = 0
    /\ batch = <<>>
    /\ idx = 1
    /\ log = <<>>
    /\ newMatches = <<>>
    /\ dirtyMatches = {}
    /\ committed = FALSE
    /\ sess = NoSession
    /\ match_id = 0
    /\ last = None
    /\ firstRun = None

----------------------------------------------------------------------------
(* _safe_cast on its own *)

Alphabet == {" ", "%", "/", "+", "-", ".", "0", "7", "a", SuperscriptTwo}

RECURSIVE TextsOver(_, _)
TextsOver(chars, n) ==
    IF n = 0 THEN {<<>>}
    ELSE TextsOver(chars, n - 1) \cup
         {Append(t, c) : t \in {u \in TextsOver(chars, n - 1) : Len(u) = n - 1}, c \in chars}

\* the cell texts of the site beside the short texts
SiteTexts ==
    { <<"/", " ", "1", "2", " ", "/">>, <<"/", "3", "2", "/">>, <<"4", "5", "%">>,
      <<"1", "8", ".", "5", "%">>, <<"0", ".", "0", "0">>, <<"2", "2", "5">> }

CastTypes == {"int", "float", "str"}

\* the defaults a caller passes: None, or a value of the target type
Defaults(cast_type) ==
    CASE cast_type = "int" -> {None, Some(0 - 1)}
      [] cast_type = "float" -> {None, Some(<<0 - 1, 0>>)}
      [] cast_type = "str" -> {None, Some(<<"n", "/", "a">>)}

TextCalls(c) ==
    {[number |-> FALSE, value |-> v, cast_type |-> c, default |-> d] :
        v \in {None} \cup {Some(t) : t \in TextsOver(Alphabet, MaxTextLen) \cup SiteTexts},
        d \in Defaults(c)}

IntCalls(c) ==
    {[number |-> TRUE, value |-> n, cast_type |-> c, default |-> d] :
        n \in {0 - 7, 0, 12}, d \in Defaults(c)}

InitSafeCast ==
    /\ NoCommand
    /\ \E c \in CastTypes : call \in TextCalls(c) \/ call \in IntCalls(c)
    /\ returned = None

\* _safe_cast(value, cast_type, default) with a str or None
CallSafeCast ==
    /\ call # None
    /\ returned = None
    /\ ~call.number
    /\ returned' = Some(SafeCast(call.value, call.cast_type, call.default))
    /\ UNCHANGED call
    /\ UNCHANGED commandVars

\* _safe_cast(value, cast_type, default) with an int
CallSafeCastOfInt ==
    /\ call # None
    /\ returned = None
    /\ call.number
    /\ returned' = Some(SafeCastOfInt(call.value, call.cast_type, call.default))
    /\ UNCHANGED call
    /\ UNCHANGED commandVars

NextSafeCast ==
    \/ CallSafeCast
    \/ CallSafeCastOfInt

SpecSafeCast == InitSafeCast /\ [][NextSafeCast]_vars

\* the value of the call is not None
HasValue == call.number \/ call.value # None

\* the text of the value of a call
CallText == IF call.number THEN PyStr(call.value) ELSE call.value[1]

\* the text left when surrounding whitespace, every '%' and '/' and, for a
\* numeric target, one leading '+' are taken away
CleanedText ==
    LET t == Strip(Remove(Remove(CallText, "/"), "%"))
    IN IF call.cast_type # "str" /\ StartsWith(t, "+") THEN From(t, 1) ELSE t

\* an optional '-' and one or more digits
IntegerShape(t) ==
    LET body == IF StartsWith(t, "-") THEN From(t, 1) ELSE t
    IN body # <<>> /\ \A i \in 1..Len(body) : body[i] \in DecimalDigits

\* an optional '-' and digits with at most one point among them
FloatShape(t) ==
    LET body == IF StartsWith(t, "-") THEN From(t, 1) ELSE t
    IN /\ \E i \in 1..Len(body) : body[i] \in DecimalDigits
       /\ \A i \in 1..Len(body) : body[i] \in DecimalDigits \cup {"."}
       /\ Cardinality({i \in 1..Len(body) : body[i] = "."}) <= 1

IntegerValue(t) ==
    IF StartsWith(t, "-") THEN 0 - DecimalValue(From(t, 1)) ELSE DecimalValue(t)

ReturnedFor(text, cast_type) ==
    /\ returned # None
    /\ ~call.number
    /\ call.value = Some(text)
    /\ call.cast_type = cast_type

\* C12: with target integer, _safe_cast gives the exact integer when the
\* cleaned text is an optional '-' and digits, and the caller's default for
\* every other cleaned text; '+7' and '7' give 7, '-7' gives -7 and
\* '/ 12 /' gives 12
C12_IntegerCast ==
    (returned # None /\ call.cast_type = "int") =>
       /\ returned[1].error = ""
       /\ HasValue =>
             returned[1].value = IF IntegerShape(CleanedText)
                                 THEN Some(IntegerValue(CleanedText))
                                 ELSE call.default
       /\ ReturnedFor(<<"+", "7">>, "int") => returned[1].value = Some(7)
       /\ ReturnedFor(<<"7">>, "int") => returned[1].value = Some(7)
       /\ ReturnedFor(<<"-", "7">>, "int") => returned[1].value = Some(0 - 7)
       /\ ReturnedFor(<<"/", " ", "1", "2", " ", "/">>, "int") =>
             returned[1].value = Some(12)

\* '/ 12 /' has been cast to the integer 12 for a caller whose default is -1
C12_Witness ==
    /\ ReturnedFor(<<"/", " ", "1", "2", " ", "/">>, "int")
    /\ call.default = Some(0 - 1)
    /\ returned[1].value = Some(12)

\* C13 as stated: _safe_cast never raises, and for each of the three
\* target types it gives the caller's default when the cleaned value is
\* empty or, for a numeric target, has not the numeric shape
C13_DefaultWheneverEmpty ==
    (returned # None) =>
       /\ returned[1].error = ""
       /\ (HasValue /\ CleanedText = <<>>) =>
             returned[1].value = call.default
       /\ (HasValue /\ call.cast_type = "int" /\ ~IntegerShape(CleanedText)) =>
             returned[1].value = call.default
       /\ (HasValue /\ call.cast_type = "float" /\ ~FloatShape(CleanedText)) =>
             returned[1].value = call.default

----------------------------------------------------------------------------
(* parse_match_list.  A page is the sequence of its a.match-item anchors; *)
(* an anchor is what the selectors of the function find in it:            *)
(*   href            the attribute, None when the anchor has none         *)
(*   status_element  div.ml-status: its own text and the text of the      *)
(*                   span.ml-status-label in it                           *)
(*   team_elements   the texts of .match-item-vs-team-name .text-of       *)
(*   event_element, event_subtext_element   the two event labels          *)
(*   score_spans     the texts of the elements of class                   *)
(*                   match-item-vs-team-score js-spoiler                  *)
(*   score_tags      the texts of the js-spoiler elements inside a        *)
(*                   match-item-vs-team-score element                     *)

MaxAnchors == 2

Lower(c) ==
    CASE c = "A" -> "a" [] c = "C" -> "c" [] c = "E" -> "e" [] c = "F" -> "f"
      [] c = "I" -> "i" [] c = "L" -> "l" [] c = "M" -> "m" [] c = "N" -> "n"
      [] c = "S" -> "s" [] c = "U" -> "u" [] OTHER -> c

LowerText(t) == [i \in 1..Len(t) |-> Lower(t[i])]

\* str.split('/')
RECURSIVE Split(_)
Split(t) ==
    IF \E i \in 1..Len(t) : t[i] = "/"
    THEN LET k == CHOOSE i \in 1..Len(t) : t[i] = "/" /\ \A j \in 1..(i - 1) : t[j] # "/"
         IN <<SubSeq(t, 1, k - 1)>> \o Split(SubSeq(t, k + 1, Len(t)))
    ELSE <<t>>

\* "'S' in 'P'": the empty text is in every text
Contains(t, a) == IsSubstring(a, t)

\* element.text of div.ml-status: its own text with that of the label in it
StatusElementText(status_element) ==
    status_element.text \o
        (IF status_element.label = None THEN <<>> ELSE status_element.label[1])

\* lines 129-137
StatusText(a) ==
    LET status_element == a.status_element
        status_text == IF status_element # None
                       THEN Strip(StatusElementText(status_element[1]))
                       ELSE <<"U", "n", "k", "n", "o", "w", "n">>
        with_label == IF status_text = <<>> /\ status_element # None
                         /\ status_element[1].label # None
                      THEN Strip(status_element[1].label[1])
                      ELSE status_text
    IN IF LowerText(with_label) = <<"f", "i", "n", "a", "l">> THEN <<"C", "o", "m", "p", "l", "e", "t", "e", "d">> ELSE with_label

\* an event name that is never absent
EventNameOrEmpty(a) == Some(<<>>)

\* lines 145-155
EventName(a) ==
    LET event_name == IF a.event_element # None
                      THEN Some(Strip(a.event_element[1])) ELSE None
    IN IF a.event_subtext_element # None
       THEN LET sub_text == Strip(a.event_subtext_element[1])
            IN IF /\ Truthy(event_name)
                  /\ sub_text # <<>>
                  /\ ~Contains(LowerText(event_name[1]), LowerText(sub_text))
               THEN Some(event_name[1] \o <<":", " ">> \o sub_text)
               ELSE IF sub_text # <<>> THEN Some(sub_text)
               ELSE event_name
       ELSE event_name

\* element.select('match-item-vs-team-score  js-spoiler'): a selector
\* without dots names tags, not classes
ScoreElements(a) == a.score_tags

\* line 119: the href is there, has a '/' and digits after its first '/'
HrefAccepted(href) ==
    /\ Truthy(href)
    /\ Len(Split(href[1])) >= 2
    /\ IsDigit(Split(href[1])[2])

\* lines 122-170 for an anchor whose href is accepted
ParseAnchor(a) ==
    LET team_elements == a.team_elements
        score_elements == ScoreElements(a)
        team1_score_str == IF Len(score_elements) > 0
                           THEN Some(Strip(score_elements[1])) ELSE None
        team2_score_str == IF Len(score_elements) > 1
                           THEN Some(Strip(score_elements[2])) ELSE None
    IN [match_source_id |-> Split(a.href[1])[2],
        match_url |-> <<BASE_URL>> \o a.href[1],
        status |-> StatusText(a),
        team1_name |-> IF Len(team_elements) > 0
                       THEN Some(Strip(team_elements[1])) ELSE None,
        team2_name |-> IF Len(team_elements) > 1
                       THEN Some(Strip(team_elements[2])) ELSE None,
        team1_score |-> SafeCast(team1_score_str, "int", None).value,
        team2_score |-> SafeCast(team2_score_str, "int", None).value,
        event_name |-> EventName(a)]

\* a loop in which a later anchor with a seen id replaces the id's record
RECURSIVE ParseAnchorsKeepLast(_, _, _)
ParseAnchorsKeepLast(match_elements, processed_ids, matches) ==
    IF match_elements = <<>> THEN matches
    ELSE LET element == Head(match_elements)
             rest == Tail(match_elements)
         IN IF ~HrefAccepted(element.href)
            THEN ParseAnchorsKeepLast(rest, processed_ids, matches)
            ELSE IF Split(element.href[1])[2] \in processed_ids
            THEN ParseAnchorsKeepLast(rest, processed_ids,
                     [k \in 1..Len(matches) |->
                         IF matches[k].match_source_id = Split(element.href[1])[2]
                         THEN ParseAnchor(element) ELSE matches[k]])
            ELSE ParseAnchorsKeepLast(rest,
                                      processed_ids \cup {Split(element.href[1])[2]},
                                      Append(matches, ParseAnchor(element)))

\* the loop of lines 117-171 over the anchors left, with the ids seen
RECURSIVE ParseAnchors(_, _, _)
ParseAnchors(match_elements, processed_ids, matches) ==
    IF match_elements = <<>> THEN matches
    ELSE LET element == Head(match_elements)
             rest == Tail(match_elements)
         IN IF ~HrefAccepted(element.href)
            THEN ParseAnchors(rest, processed_ids, matches)
            ELSE IF Split(element.href[1])[2] \in processed_ids
            THEN ParseAnchors(rest, processed_ids, matches)
            ELSE ParseAnchors(rest,
                              processed_ids \cup {Split(element.href[1])[2]},
                              Append(matches, ParseAnchor(element)))

\* parse_match_list(html_content, source_url)
ParseMatchList(match_elements) == ParseAnchors(match_elements, {}, <<>>)

\* the hrefs of the anchors of a page
Hrefs ==
    { None, Some(<<>>),
      Some(<<"/", "1", "/", "a">>), Some(<<"/", "2", "/", "b">>), Some(<<"/", "1">>),
      Some(<<"1", "/", "a">>), Some(<<"a", "/", "1", "/", "b">>), Some(<<"/", "a", "/", "1">>) }

AnchorBody(st, teams, ev, sub, spans, tags) ==
    [status_element |-> st, team_elements |-> teams, event_element |-> ev,
     event_subtext_element |-> sub, score_spans |-> spans, score_tags |-> tags]

StatusElement(text, label) == Some([text |-> text, label |-> label])

\* what an anchor may hold: a finished match as the site shows it, an
\* anchor with nothing in it, a finished match with its status in the
\* label and its scores in elements of the selector's tags, an upcoming
\* match whose series is part of its event label, and an anchor whose
\* elements are there and empty
AnchorBodies ==
    { AnchorBody(StatusElement(<<"F", "i", "n", "a", "l">>, None), <<<<" ", "A", " ">>, <<"B">>>>, Some(<<"E", "m", "e", "a">>), Some(<<"C", "u", "p">>),
                 <<<<"1", "3">>, <<"1", "1">>>>, <<>>),
      AnchorBody(None, <<>>, None, None, <<>>, <<>>),
      AnchorBody(StatusElement(<<>>, Some(<<"f", "i", "n", "a", "l">>)), <<<<" ", "A", " ">>>>, None, Some(<<"C", "u", "p">>),
                 <<>>, <<<<"1", "3">>, <<"1", "1">>>>),
      AnchorBody(StatusElement(<<"2", "h">>, None), <<<<" ", "A", " ">>, <<"B">>>>, Some(<<"E", "m", "e", "a", " ", "C", "u", "p">>), Some(<<"c", "u", "p">>),
                 <<>>, <<>>),
      AnchorBody(StatusElement(<<" ">>, None), <<<<>>, <<>>>>, Some(<<>>), Some(<<>>),
                 <<<<>>>>, <<<<>>>>) }

Anchor(href, body) ==
    [href |-> href, status_element |-> body.status_element,
     team_elements |-> body.team_elements, event_element |-> body.event_element,
     event_subtext_element |-> body.event_subtext_element,
     score_spans |-> body.score_spans, score_tags |-> body.score_tags]

Anchors == {Anchor(h, b) : h \in Hrefs, b \in AnchorBodies}

\* a results page with one finished match
ResultsPage ==
    << Anchor(Some(<<"/", "4", "5", "0", "0", "5", "3", "/", "t", "e", "a", "m", "-", "a", "-", "v", "s", "-", "t", "e", "a", "m", "-", "b">>),
              AnchorBody(StatusElement(<<>>, Some(<<"f", "i", "n", "a", "l">>)), <<<<" ", "A", " ">>, <<"B">>>>, Some(<<"E", "m", "e", "a">>), None,
                         <<<<"1", "3">>, <<"1", "1">>>>, <<>>)) >>

ListPages ==
    {ResultsPage} \cup UNION {[1..n -> Anchors] : n \in 0..MaxAnchors}

InitParseList ==
    /\ NoCommand
    /\ call \in {[html_content |-> page] : page \in ListPages}
    /\ returned = None

CallParseMatchList ==
    /\ call # None
    /\ returned = None
    /\ returned' = Some(ParseMatchList(call.html_content))
    /\ UNCHANGED call
    /\ UNCHANGED commandVars

NextParseList == CallParseMatchList

SpecParseList == InitParseList /\ [][NextParseList]_vars

\* the anchors of the page under call, and the records returned
PageAnchors == call.html_content
Records == returned[1]

\* '/' + digits + '/' + rest
PathForm(href) ==
    /\ Truthy(href)
    /\ StartsWith(href[1], "/")
    /\ Len(Split(href[1])) >= 3
    /\ Decimal(Split(href[1])[2])

\* C14 as stated: the ids of the records are the ids of the anchors whose
\* href is '/' + digits + '/' + rest, every other anchor giving no record
C14_RecordIffPathForm ==
    (returned # None) =>
        {Records[i].match_source_id : i \in 1..Len(Records)} =
        {Split(PageAnchors[i].href[1])[2] :
            i \in {j \in 1..Len(PageAnchors) : PathForm(PageAnchors[j].href)}}

\* the anchor a record is built from: the first one accepted with its id
SourceAnchor(r) ==
    LET from == {i \in 1..Len(PageAnchors) :
                    /\ HrefAccepted(PageAnchors[i].href)
                    /\ Split(PageAnchors[i].href[1])[2] = r.match_source_id}
    IN PageAnchors[CHOOSE i \in from : \A j \in from : i <= j]

\* every accepted anchor has the record of its id
EveryAcceptedAnchorEmitted ==
    \A i \in 1..Len(PageAnchors) : HrefAccepted(PageAnchors[i].href) =>
        \E k \in 1..Len(Records) :
            Records[k].match_source_id = Split(PageAnchors[i].href[1])[2]

\* C15 as stated: a record's status, team names, scores and event name are
\* None when the anchor lacks the element of that field, and the record is
\* emitted all the same
C15_MissingElementGivesNone ==
    (returned # None) =>
       /\ EveryAcceptedAnchorEmitted
       /\ \A k \in 1..Len(Records) :
             LET r == Records[k]
                 a == SourceAnchor(r)
             IN /\ a.status_element = None => r.status = None
                /\ Len(a.team_elements) < 1 => r.team1_name = None
                /\ Len(a.team_elements) < 2 => r.team2_name = None
                /\ Len(a.score_tags) < 1 => r.team1_score = None
                /\ Len(a.score_tags) < 2 => r.team2_score = None
                /\ a.event_element = None => r.event_name = None

\* C15 amended: for an anchor that lacks the element, status is 'Unknown',
\* team1_name and team2_name are None, team1_score and team2_score are None
\* when the score selector finds no element for them, and event_name is
\* None when the event label is missing and the series sub-label is missing
\* or empty; the record is emitted all the same
C15_MissingElementGivesNoneOrUnknown ==
    (returned # None) =>
       /\ EveryAcceptedAnchorEmitted
       /\ \A k \in 1..Len(Records) :
             LET r == Records[k]
                 a == SourceAnchor(r)
             IN /\ a.status_element = None => r.status = <<"U", "n", "k", "n", "o", "w", "n">>
                /\ Len(a.team_elements) < 1 => r.team1_name = None
                /\ Len(a.team_elements) < 2 => r.team2_name = None
                /\ Len(a.score_tags) < 1 => r.team1_score = None
                /\ Len(a.score_tags) < 2 => r.team2_score = None
                /\ (/\ a.event_element = None
                    /\ \/ a.event_subtext_element = None
                       \/ Strip(a.event_subtext_element[1]) = <<>>) =>
                      r.event_name = None

\* an anchor with an id and nothing else has given its record
C15_Witness ==
    /\ returned # None
    /\ Len(PageAnchors) = 1
    /\ PageAnchors[1].status_element = None
    /\ PageAnchors[1].team_elements = <<>>
    /\ PageAnchors[1].event_element = None
    /\ PageAnchors[1].event_subtext_element = None
    /\ Len(Records) = 1
    /\ Records[1].status = <<"U", "n", "k", "n", "o", "w", "n">>
    /\ Records[1].team1_name = None
    /\ Records[1].team2_score = None
    /\ Records[1].event_name = None

\* C16 as stated: the results page with the one finished match gives
\* exactly one record, with id '450053', status 'Completed' and the scores
\* 13 and 11
C16_ResultsPageScores ==
    (returned # None /\ PageAnchors = ResultsPage) =>
       /\ Len(Records) = 1
       /\ Records[1].match_source_id = <<"4", "5", "0", "0", "5", "3">>
       /\ Records[1].status = <<"C", "o", "m", "p", "l", "e", "t", "e", "d">>
       /\ Records[1].team1_score = Some(13)
       /\ Records[1].team2_score = Some(11)

----------------------------------------------------------------------------
(* parse_match_details.  A page is the sequence of the stats tables of the *)
(* container the function selects; a table is None without a tbody, else   *)
(* the sequence of its rows; a row is its td cells and whether extracting  *)
(* it raises.  A cell is what the function looks for in it:                *)
(*   link         the first <a>: the texts of its div.text-of and          *)
(*                div.ge-text-light and its href                           *)
(*   imgs         the title and alt of each span.stats-sq.mod-agent img    *)
(*   both         the text of the first span.mod-both                      *)
(*   combat_both  the text of the first span.mod-combat span.mod-both      *)
(*   text         the text of the whole cell                               *)

MaxRows == 2

min_expected_cells == 14

\* _parse_player_source_id: re.search(r'/player/(\d+)/', player_url)
ParsePlayerSourceId(player_url) ==
    IF ~Truthy(player_url) THEN None
    ELSE LET parts == Split(player_url[1])
             at == {i \in 2..(Len(parts) - 2) :
                       parts[i] = <<"p", "l", "a", "y", "e", "r">> /\ Decimal(parts[i + 1])}
         IN IF at = {} THEN None
            ELSE Some(parts[(CHOOSE i \in at : \A j \in at : i <= j) + 1])

\* "/".join(texts)
RECURSIVE JoinSlash(_)
JoinSlash(texts) ==
    IF texts = <<>> THEN <<>>
    ELSE IF Len(texts) = 1 THEN texts[1]
    ELSE texts[1] \o <<"/">> \o JoinSlash(Tail(texts))

\* lines 372-378: the agents of the row
AgentStr(agent_cell) ==
    LET imgs == agent_cell.imgs
        titled == SelectSeq(imgs, LAMBDA img : Truthy(img.title))
        alted == SelectSeq(imgs, LAMBDA img : Truthy(img.alt))
        agents == IF titled # <<>>
                  THEN [i \in 1..Len(titled) |-> Strip(titled[i].title[1])]
                  ELSE [i \in 1..Len(alted) |-> Strip(alted[i].alt[1])]
    IN IF agents # <<>>
       THEN Some(JoinSlash(SelectSeq(agents, LAMBDA a : a # <<>>)))
       ELSE None

\* the direct text of a cell taken for a number
LooksNumeric(direct_text) ==
    /\ direct_text # <<>>
    /\ \/ IsDigit(<<direct_text[1]>>)
       \/ direct_text[1] \in {"+", "-", "."}

\* get_stat_text(cell_index) and
\* get_stat_text(9, nested_selector='span.mod-combat span.mod-both')
GetStatText(cell, nested) ==
    LET stat_tag == IF nested THEN cell.combat_both ELSE cell.both
    IN IF stat_tag # None THEN Some(Strip(stat_tag[1]))
       ELSE IF LooksNumeric(Strip(cell.text)) THEN Some(Strip(cell.text))
       ELSE None

\* lines 409-410
AdrText(cell) ==
    IF Truthy(GetStatText(cell, TRUE)) THEN GetStatText(cell, TRUE)
    ELSE GetStatText(cell, FALSE)

\* a differential that is always recomputed from its components
AlwaysRecomputed(parsed, a, b) ==
    IF a # None /\ b # None THEN Some(a[1] - b[1]) ELSE parsed

\* lines 433-438: "if diff is None and a is not None and b is not None"
Recalculated(parsed, a, b) ==
    IF parsed = None /\ a # None /\ b # None THEN Some(a[1] - b[1]) ELSE parsed

CastCell(cell, cast_type) == SafeCast(GetStatText(cell, FALSE), cast_type, None).value

\* lines 358-459 for a row whose extraction raises nothing
PlayerStats(cells) ==
    LET player_link_tag == cells[1].link
        kills == CastCell(cells[5], "int")
        deaths == CastCell(cells[6], "int")
        first_kills == CastCell(cells[12], "int")
        first_deaths == CastCell(cells[13], "int")
    IN [player_name |-> IF player_link_tag # None /\ player_link_tag[1].name # None
                        THEN Some(Strip(player_link_tag[1].name[1])) ELSE None,
        player_source_id |-> IF player_link_tag # None
                             THEN ParsePlayerSourceId(player_link_tag[1].href) ELSE None,
        team_name |-> IF player_link_tag # None /\ player_link_tag[1].team # None
                      THEN Some(Strip(player_link_tag[1].team[1])) ELSE None,
        agent |-> AgentStr(cells[2]),
        rating |-> CastCell(cells[3], "float"),
        acs |-> CastCell(cells[4], "int"),
        kills |-> kills,
        deaths |-> deaths,
        assists |-> CastCell(cells[7], "int"),
        kill_death_difference |-> Recalculated(CastCell(cells[8], "int"), kills, deaths),
        kast_percentage |-> CastCell(cells[9], "float"),
        adr |-> SafeCast(AdrText(cells[10]), "int", None).value,
        headshot_percentage |-> CastCell(cells[11], "float"),
        first_kills |-> first_kills,
        first_deaths |-> first_deaths,
        first_kill_first_death_difference |->
            Recalculated(CastCell(cells[14], "int"), first_kills, first_deaths)]

\* the loop of lines 345-463 over the rows left of one table
RECURSIVE ParseRows(_, _)
ParseRows(rows, all_player_stats) ==
    IF rows = <<>> THEN all_player_stats
    ELSE LET row == Head(rows)
         IN IF Len(row.cells) < min_expected_cells
            THEN ParseRows(Tail(rows), all_player_stats)
            ELSE IF row.raises
            THEN ParseRows(Tail(rows), all_player_stats)
            ELSE ParseRows(Tail(rows), Append(all_player_stats, PlayerStats(row.cells)))

\* a loop that a bad row ends
RECURSIVE ParseTablesUntilBadRow(_, _)
ParseTablesUntilBadRow(stats_tables, all_player_stats) ==
    IF stats_tables = <<>> THEN all_player_stats
    ELSE IF Head(stats_tables) = None
    THEN ParseTablesUntilBadRow(Tail(stats_tables), all_player_stats)
    ELSE LET rows == Head(stats_tables)[1]
             bad == {i \in 1..Len(rows) :
                        Len(rows[i].cells) < min_expected_cells \/ rows[i].raises}
         IN IF bad = {}
            THEN ParseTablesUntilBadRow(Tail(stats_tables), ParseRows(rows, all_player_stats))
            ELSE ParseRows(SubSeq(rows, 1, (CHOOSE i \in bad : \A j \in bad : i <= j) - 1),
                           all_player_stats)

\* the loop of lines 337-463 over the tables left
RECURSIVE ParseTables(_, _)
ParseTables(stats_tables, all_player_stats) ==
    IF stats_tables = <<>> THEN all_player_stats
    ELSE IF Head(stats_tables) = None
    THEN ParseTables(Tail(stats_tables), all_player_stats)
    ELSE ParseTables(Tail(stats_tables), ParseRows(Head(stats_tables)[1], all_player_stats))

\* parse_match_details(html_content, match_url), from the tables of the
\* container it selects
ParseMatchDetails(stats_tables) == ParseTables(stats_tables, <<>>)

\* what a page can hold
PlayerCell(name, href) ==
    [link |-> Some([name |-> Some(name), team |-> Some(TeamA), href |-> Some(href)]),
     imgs |-> <<>>, both |-> None, combat_both |-> None, text |-> name]

AgentCell(title) ==
    [link |-> None, imgs |-> <<[title |-> Some(title), alt |-> None]>>,
     both |-> None, combat_both |-> None, text |-> <<>>]

\* a stat cell with its text in a span.mod-both, or directly in the td
StatCell(text, in_span) ==
    [link |-> None, imgs |-> <<>>, both |-> IF in_span THEN Some(text) ELSE None,
     combat_both |-> None, text |-> text]

StatsRow(texts, spans) ==
    [raises |-> FALSE,
     cells |-> <<PlayerCell(<<"E", "z", "e", "i", "r">>, <<"/", "p", "l", "a", "y", "e", "r", "/", "7", "/", "e">>), AgentCell(<<"J", "e", "t", "t">>)>>
               \o [i \in 1..Len(texts) |-> StatCell(texts[i], i \in spans)]]

\* R, ACS, K, D, A, +/-, KAST, ADR, HS%, FK, FD, +/-
EzeirTexts ==
    <<<<"0", ".", "0", "0">>, <<"2", "2", "5">>, <<"3", "7">>, <<"/", "3", "2", "/">>, <<"1", "2">>, <<"+", "5">>, <<"0", "%">>, <<"1", "4", "3">>, <<"1", "8", ".", "5", "%">>, <<"4">>, <<"2">>, <<"+", "2">>>>

With(texts, at, text) == [texts EXCEPT ![at] = text]

Ezeir == StatsRow(EzeirTexts, 1..12)
\* explicit differentials that differ from the derived ones
Differs == StatsRow(With(With(EzeirTexts, 4, <<"3", "0">>), 11, <<"3">>), 1..12)
\* kills 18, deaths 14 and no differentials
NoDiff == StatsRow(With(With(With(With(EzeirTexts, 3, <<"1", "8">>), 4, <<"1", "4">>), 6, <<>>), 12, <<"a">>), 1..12)
\* no differentials and no deaths, no first kills
Missing == StatsRow(With(With(With(With(EzeirTexts, 4, <<>>), 6, <<>>), 10, <<"-">>), 12, <<>>), 1..12)
Short == [Ezeir EXCEPT !.cells = SubSeq(Ezeir.cells, 1, min_expected_cells - 1)]
Raising == [NoDiff EXCEPT !.raises = TRUE]

StatsRows == {Differs, NoDiff, Missing, Short, Raising}

\* up to n rows, no row twice in a table
RowsUpTo(n) ==
    {rows \in UNION {[1..k -> StatsRows] : k \in 0..n} :
        \A i, j \in 1..Len(rows) : i # j => rows[i] # rows[j]}

\* a table without tbody, or the rows of its tbody
StatsTables == {None} \cup {Some(rows) : rows \in RowsUpTo(MaxRows)}

\* no table, one table, or one table per team
DetailPages ==
    {<<>>} \cup {<<t>> : t \in StatsTables} \cup {<<t, u>> : t, u \in StatsTables}

\* the Ezeir row with each text in its span or directly in its cell
EzeirPages == {<<Some(<<StatsRow(EzeirTexts, spans)>>)>> : spans \in SUBSET (1..12)}

InitParseDetails ==
    /\ NoCommand
    /\ call \in {[stats_tables |-> p] : p \in DetailPages \cup EzeirPages}
    /\ returned = None

CallParseMatchDetails ==
    /\ call # None
    /\ returned = None
    /\ returned' = Some(ParseMatchDetails(call.stats_tables))
    /\ UNCHANGED call
    /\ UNCHANGED commandVars

NextParseDetails == CallParseMatchDetails

SpecParseDetails == InitParseDetails /\ [][NextParseDetails]_vars

\* what the call was given and what it returned
StatsTablesOfCall == call.stats_tables
PlayerStatsReturned == returned[1]
ParsedDetails == returned # None /\ "stats_tables" \in DOMAIN call

\* the rows of a page, in table order then row order
RECURSIVE RowsOf(_)
RowsOf(stats_tables) ==
    IF stats_tables = <<>> THEN <<>>
    ELSE (IF Head(stats_tables) = None THEN <<>> ELSE Head(stats_tables)[1])
         \o RowsOf(Tail(stats_tables))

Extractable(row) == Len(row.cells) >= 14 /\ ~row.raises

\* what the parser returns for a page that holds this row and nothing else
Alone(row) == ParseMatchDetails(<<Some(<<row>>)>>)

RECURSIVE EachAlone(_)
EachAlone(rows) ==
    IF rows = <<>> THEN <<>> ELSE Alone(Head(rows)) \o EachAlone(Tail(rows))

\* C17: parse_match_details returns one record for every row that has at
\* least 14 cells and whose extraction raises nothing, in table order then
\* row order; a row with fewer cells or whose extraction raises is skipped
\* and changes nothing of the records of the other rows and tables: the
\* records returned are, in order, those each row gives when it is alone on
\* the page.
C17_BadRowsSkippedAlone ==
    ParsedDetails =>
        /\ \A i \in 1..Len(RowsOf(StatsTablesOfCall)) :
               Len(Alone(RowsOf(StatsTablesOfCall)[i]))
                   = IF Extractable(RowsOf(StatsTablesOfCall)[i]) THEN 1 ELSE 0
        /\ PlayerStatsReturned = EachAlone(RowsOf(StatsTablesOfCall))

\* a short row before a good row in one table, a raising row before a good
\* row in the other, and both good rows' records returned
C17_Witness ==
    /\ ParsedDetails
    /\ StatsTablesOfCall = <<Some(<<Short, Differs>>), Some(<<Raising, NoDiff>>)>>
    /\ PlayerStatsReturned = Alone(Differs) \o Alone(NoDiff)
    /\ Len(PlayerStatsReturned) = 2

ExtractableRows == SelectSeq(RowsOf(StatsTablesOfCall), Extractable)

\* the integer a differential cell parses to, if any
ParsedDiff(row, at) == SafeCast(GetStatText(row.cells[at], FALSE), "int", None).value

DiffRule(diff, parsed, a, b) ==
    diff = IF parsed # None THEN parsed
           ELSE IF a # None /\ b # None THEN Some(a[1] - b[1])
           ELSE None

\* C18: in every record returned, kill_death_difference is the integer the
\* differential cell parses to when it parses to one, whatever kills minus
\* deaths is; kills minus deaths when the cell does not parse and both are
\* present; None otherwise.  The same for the first-kill differential.
C18_DifferentialRule ==
    ParsedDetails =>
        /\ Len(PlayerStatsReturned) = Len(ExtractableRows)
        /\ \A k \in 1..Len(PlayerStatsReturned) :
               LET rec == PlayerStatsReturned[k]
                   row == ExtractableRows[k]
               IN /\ DiffRule(rec.kill_death_difference, ParsedDiff(row, 8),
                              rec.kills, rec.deaths)
                  /\ DiffRule(rec.first_kill_first_death_difference, ParsedDiff(row, 14),
                              rec.first_kills, rec.first_deaths)

\* one record keeps a parsed differential that is not kills minus deaths,
\* one has it derived, one has None
C18_Witness ==
    /\ ParsedDetails
    /\ StatsTablesOfCall = <<Some(<<Differs, NoDiff>>), Some(<<Missing>>)>>
    /\ Len(PlayerStatsReturned) = 3
    /\ PlayerStatsReturned[1].kill_death_difference = Some(5)
    /\ PlayerStatsReturned[1].kills = Some(37)
    /\ PlayerStatsReturned[1].deaths = Some(30)
    /\ PlayerStatsReturned[1].first_kill_first_death_difference = Some(2)
    /\ PlayerStatsReturned[1].first_deaths = Some(3)
    /\ PlayerStatsReturned[2].kill_death_difference = Some(4)
    /\ PlayerStatsReturned[2].first_kill_first_death_difference = Some(2)
    /\ PlayerStatsReturned[3].kill_death_difference = None
    /\ PlayerStatsReturned[3].first_kill_first_death_difference = None

\* C19: the row with rating '0.00', ACS '225', K '37', D '/32/', A '12',
\* KD '+5', KAST '0%', ADR '143', HS% '18.5%', FK '4', FD '2', FKFD '+2',
\* each text in its cell's span or directly in its cell, gives one record
\* with rating 0.0, acs 225, kills 37, deaths 32, assists 12, difference 5,
\* kast 0.0, adr 143, headshot 18.5, first kills 4, first deaths 2 and
\* first-kill difference 2.
C19_EzeirRow ==
    (ParsedDetails /\ StatsTablesOfCall \in EzeirPages) =>
        /\ Len(PlayerStatsReturned) = 1
        /\ PlayerStatsReturned[1].rating = Some(<<0, 0>>)
        /\ PlayerStatsReturned[1].acs = Some(225)
        /\ PlayerStatsReturned[1].kills = Some(37)
        /\ PlayerStatsReturned[1].deaths = Some(32)
        /\ PlayerStatsReturned[1].assists = Some(12)
        /\ PlayerStatsReturned[1].kill_death_difference = Some(5)
        /\ PlayerStatsReturned[1].kast_percentage = Some(<<0, 0>>)
        /\ PlayerStatsReturned[1].adr = Some(143)
        /\ PlayerStatsReturned[1].headshot_percentage = Some(<<185, 1>>)
        /\ PlayerStatsReturned[1].first_kills = Some(4)
        /\ PlayerStatsReturned[1].first_deaths = Some(2)
        /\ PlayerStatsReturned[1].first_kill_first_death_difference = Some(2)

\* the same, for the row whose texts are all in their span.mod-both
C19_EzeirRowInSpans ==
    (ParsedDetails /\ StatsTablesOfCall = <<Some(<<Ezeir>>)>>) =>
        /\ Len(PlayerStatsReturned) = 1
        /\ PlayerStatsReturned[1].deaths = Some(32)
        /\ PlayerStatsReturned[1].kill_death_difference = Some(5)
        /\ PlayerStatsReturned[1].headshot_percentage = Some(<<185, 1>>)

----------------------------------------------------------------------------
(* fetch_html, and scrape_matches from the two requests on.  A response is *)
(* what requests.get does: the exception it raises, or the status code and  *)
(* the body, the body held as the list parse_match_list makes of it.        *)

RequestExceptions == {"ConnectionError", "Timeout", "HTTPError"}

\* response.raise_for_status(): HTTPError for 4xx and 5xx
RaiseForStatus(response) ==
    IF response.status_code >= 400 /\ response.status_code < 600
    THEN Raise("HTTPError")
    ELSE Gives(None)

\* a handler that lets a timeout through
CatchConnectionAndHttpError(outcome) ==
    IF outcome.error \in {"ConnectionError", "HTTPError"} THEN Gives(None) ELSE outcome

\* line 86: except requests.exceptions.RequestException: return None
CatchRequestException(outcome) ==
    IF outcome.error \in RequestExceptions THEN Gives(None) ELSE outcome

\* fetch_html(url)
FetchHtml(response) ==
    CatchRequestException(
        IF response.raises # "" THEN Raise(response.raises)
        ELSE IF RaiseForStatus(response).error # "" THEN RaiseForStatus(response)
        ELSE Gives(response.text))

\* _scrape_and_parse_page(url): an exception of fetch_html passes through
ScrapeAndParsePageOf(response) ==
    LET html == FetchHtml(response)
    IN IF html.error # "" THEN html ELSE Ok(ScrapeAndParsePage(html.value))

FetchContents ==
    { Content("Upcoming", Some(<<>>), Some(<<>>), None, None, Some(<<>>)),
      Content("Completed", Some(TeamA), Some(TeamB), Some(13), Some(0), Some(Emea)) }

Responses ==
    {[raises |-> e, status_code |-> 0, text |-> None] : e \in {"ConnectionError", "Timeout"}}
    \cup {[raises |-> "", status_code |-> 200, text |-> Some(p)] : p \in Pages(FetchContents)}
    \cup {[raises |-> "", status_code |-> 404, text |-> Some(<<>>)]}

\* scrape_list_command up to the loop of scrape_matches: lines 266-281, and
\* manage.py 214-218 for an exception that leaves them
StartScrapeMatchesFetching ==
    /\ pc = "idle"
    /\ listRuns < MaxListRuns
    /\ \E upcoming \in Responses, completed \in Responses :
          LET upcoming_matches == ScrapeAndParsePageOf(upcoming)
              completed_matches == ScrapeAndParsePageOf(completed)
          IN /\ call' = [responses |-> <<upcoming, completed>>]
             /\ IF upcoming_matches.error # "" \/ completed_matches.error # ""
                THEN /\ batch' = <<>>
                     /\ pc' = "done"
                     /\ exitCode' = 1
                ELSE LET all_parsed_matches ==
                             MergePages(upcoming_matches.value[1],
                                        completed_matches.value[1])
                     IN /\ batch' = all_parsed_matches
                        /\ pc' = IF all_parsed_matches = <<>> THEN "done"
                                 ELSE "scrape_matches"
                        /\ exitCode' = 0
    /\ listRuns' = listRuns + 1
    /\ idx' = 1
    /\ log' = <<>>
    /\ committed' = FALSE
    /\ UNCHANGED <<dbMatches, dbPlayers, dbStats, detailRuns, newMatches, dirtyMatches>>
    /\ UNCHANGED detailVars
    /\ UNCHANGED returned

NextFetch ==
    \/ StartScrapeMatchesFetching
    \/ SaveBasicMatchInfo
    \/ SaveBasicMatchInfoRaises
    \/ SaveBasicMatchInfoEscapes
    \/ CommitBatch
    \/ CommitBatchRaises
    \/ Return

SpecFetch == Init /\ [][NextFetch]_vars

\* the responses of the command that runs, and which of them failed
Fetching == pc # "idle" /\ call # None
FetchFailed(response) == response.raises # "" \/ response.status_code \notin 200..299
FetchedPage(response) == response.text[1]

\* the stored row of a match has what save_basic_match_info puts there
\* from match_data: its url, and its status unless that is 'Unknown'
Upserted(match_data) ==
    \E row \in dbMatches :
        /\ row.match_source_id = match_data.match_source_id
        /\ row.match_url = match_data.match_url
        /\ match_data.status # "Unknown" => row.status = match_data.status

\* C20: no fetch failure (connection error, timeout, status outside 2xx)
\* leaves fetch_html as an exception, so the command never ends on one; and
\* when one of the two pages failed and the other did not, every match of
\* the other page goes through the save loop, and all of them are stored
\* once the loop has saved each and the commit has gone through.
C20_FetchFailureSkipsOnlyItsPage ==
    Fetching =>
        /\ \A i \in 1..2 : FetchHtml(call.responses[i]).error = ""
        /\ \A i \in 1..2 :
               FetchFailed(call.responses[i]) => FetchHtml(call.responses[i]).value = None
        /\ \A i, j \in 1..2 :
               (FetchFailed(call.responses[i]) /\ ~FetchFailed(call.responses[j])) =>
                   /\ batch = FetchedPage(call.responses[j])
                   /\ (pc = "done") =>
                          \/ batch = <<>>
                          \/ ~committed
                          \/ \E k \in 1..Len(log) : log[k] # "saved"
                          \/ \A k \in 1..Len(batch) : Upserted(batch[k])
        /\ (exitCode = 1) => log # <<>>

\* the results page timed out, the upcoming page held two matches, and both
\* are stored after the commit
C20_Witness ==
    /\ Fetching
    /\ pc = "done"
    /\ call.responses[2].raises = "Timeout"
    /\ ~FetchFailed(call.responses[1])
    /\ Len(FetchedPage(call.responses[1])) = 2
    /\ committed
    /\ Cardinality(dbMatches) = 2
    /\ \A k \in 1..2 : Upserted(FetchedPage(call.responses[1])[k])

----------------------------------------------------------------------------
(* Region inference: the mapping scrape_matches loads from table regions, *)
(* and save_basic_match_info for a match that is not stored.               *)

\* rows of table regions: abbreviations in either case, empty and NULL
RegionRows ==
    { [id |-> 1, abbreviation |-> Some(<<"N", "A">>)],
      [id |-> 2, abbreviation |-> Some(<<"E", "M", "E", "A">>)],
      [id |-> 3, abbreviation |-> Some(<<"n", "a">>)],
      [id |-> 4, abbreviation |-> Some(<<>>)],
      [id |-> 5, abbreviation |-> None] }

\* what db_session.query(Region).all() can return: rows in any order
RegionTables ==
    {rows \in UNION {[1..k -> RegionRows] : k \in 0..Cardinality(RegionRows)} :
        \A i, j \in 1..Len(rows) : i # j => rows[i] # rows[j]}

EventNames ==
    {None, Some(<<>>), Some(<<"E", "m", "e", "a">>), Some(<<"n", "a", " ", "E", "m", "e", "a">>), Some(<<"E", "m", "e", "a", " ", "n", "a">>),
     Some(<<"E", "n", "a">>), Some(<<"x">>)}

InitRegion ==
    /\ NoCommand
    /\ call \in {[regions |-> rows, event_name |-> e] :
                    rows \in RegionTables, e \in EventNames}
    /\ returned = None

\* lines 251-259 and save_basic_match_info for a match that is not stored:
\* the Match it adds to the session
CallSaveNewMatch ==
    /\ call # None
    /\ returned = None
    /\ LET mapping == LoadRegionMapping(call.regions, <<>>)
           match_data == MatchData("450053",
                             Content("Upcoming", Some(TeamA), Some(TeamB), None, None,
                                     call.event_name))
       IN returned' = Some(NewMatch(match_data,
                                    DetermineRegion(match_data.event_name, mapping)))
    /\ UNCHANGED call
    /\ UNCHANGED commandVars

NextRegion == CallSaveNewMatch

SpecRegion == InitRegion /\ [][NextRegion]_vars

\* the mapping of the call, and whether its i-th abbreviation occurs in the
\* event name, letter case apart
MappingOfCall == LoadRegionMapping(call.regions, <<>>)
SavedNewMatch == returned # None /\ "regions" \in DOMAIN call
Occurs(i) ==
    /\ call.event_name # None
    /\ IsSubstring(LowerText(MappingOfCall[i][1]), LowerText(call.event_name[1]))

\* C21: the match save_basic_match_info inserts has the region id of the
\* first abbreviation of the mapping, in its iteration order, that occurs
\* in the event name whatever the letter case, and None when none occurs or
\* the event name is absent.
C21_FirstAbbreviationFound ==
    SavedNewMatch =>
        /\ returned[1].event_name = call.event_name
        /\ IF \E i \in 1..Len(MappingOfCall) : Occurs(i)
           THEN \E i \in 1..Len(MappingOfCall) :
                    /\ Occurs(i)
                    /\ \A j \in 1..(i - 1) : ~Occurs(j)
                    /\ returned[1].region_id = Some(MappingOfCall[i][2])
           ELSE returned[1].region_id = None

\* two abbreviations occur in the event name and the first of the mapping,
\* which is the second in the event name, gives the region
C21_Witness ==
    /\ SavedNewMatch
    /\ call.event_name = Some(<<"n", "a", " ", "E", "m", "e", "a">>)
    /\ Len(MappingOfCall) = 2
    /\ Occurs(1)
    /\ Occurs(2)
    /\ MappingOfCall[1][1] = <<"E", "M", "E", "A">>
    /\ returned[1].region_id = Some(2)

\* the place on the page of the anchor a record is built from
SourceIndex(r) ==
    LET from == {i \in 1..Len(PageAnchors) :
                    /\ HrefAccepted(PageAnchors[i].href)
                    /\ Split(PageAnchors[i].href[1])[2] = r.match_source_id}
    IN CHOOSE i \in from : \A j \in from : i <= j

ParsedList == returned # None /\ "html_content" \in DOMAIN call

\* C22: parse_match_list returns each match id at most once; the record of
\* an id is the one the first anchor with that id gives when it is alone
\* on the page, and the records are in the page order of those anchors.
C22_FirstAnchorOfAnIdKept ==
    ParsedList =>
        /\ EveryAcceptedAnchorEmitted
        /\ \A k, l \in 1..Len(Records) :
               k # l => Records[k].match_source_id # Records[l].match_source_id
        /\ \A k \in 1..Len(Records) :
               <<Records[k]>> = ParseMatchList(<<SourceAnchor(Records[k])>>)
        /\ \A k, l \in 1..Len(Records) :
               k < l => SourceIndex(Records[k]) < SourceIndex(Records[l])

\* two anchors with one id and different contents: one record, the first's
C22_Witness ==
    /\ ParsedList
    /\ Len(PageAnchors) = 2
    /\ PageAnchors[1].href = Some(<<"/", "1", "/", "a">>)
    /\ PageAnchors[2].href = Some(<<"/", "1">>)
    /\ PageAnchors[1].status_element = None
    /\ PageAnchors[2].status_element # None
    /\ Len(Records) = 1
    /\ Records[1].match_url = <<BASE_URL>> \o <<"/", "1", "/", "a">>
    /\ Records[1].status = <<"U", "n", "k", "n", "o", "w", "n">>

\* the labels of the anchor a record is built from, stripped
PrimaryLabel(r) ==
    IF SourceAnchor(r).event_element = None THEN None
    ELSE Some(Strip(SourceAnchor(r).event_element[1]))
SeriesLabel(r) ==
    IF SourceAnchor(r).event_subtext_element = None THEN None
    ELSE Some(Strip(SourceAnchor(r).event_subtext_element[1]))

\* C23: with a primary label P and a non-empty series sub-label S,
\* event_name is 'P: S' when S does not occur in P whatever the letter
\* case, and P when it does; with S alone it is S, with P alone it is P.
C23_EventNameOfLabels ==
    ParsedList =>
        \A k \in 1..Len(Records) :
            LET r == Records[k]
                P == PrimaryLabel(r)
                S == SeriesLabel(r)
            IN /\ (Truthy(P) /\ Truthy(S)) =>
                      r.event_name =
                          IF IsSubstring(LowerText(S[1]), LowerText(P[1]))
                          THEN P
                          ELSE Some(P[1] \o <<":", " ">> \o S[1])
               /\ (P = None /\ Truthy(S)) => r.event_name = S
               /\ (S = None /\ P # None) => r.event_name = P

\* the text a numeric field is to be read from: that of the cell's span
\* when the span exists, the cell's direct text when it does not
SpanOrDirectText(cell) == IF cell.both # None THEN cell.both[1] ELSE cell.text

Normalizes(cell, cast_type) == SafeCast(Some(SpanOrDirectText(cell)), cast_type, None).value

\* C24: a numeric field of a record is what the Field Normalizer makes of
\* the cell's span text when the span exists, and of the cell's direct text
\* when it does not, slash-wrapped text such as '/32/' included: it is None
\* only when that text is not numeric.
C24_DirectTextWhenNumeric ==
    ParsedDetails =>
        /\ Len(PlayerStatsReturned) = Len(ExtractableRows)
        /\ \A k \in 1..Len(PlayerStatsReturned) :
               LET rec == PlayerStatsReturned[k]
                   cells == ExtractableRows[k].cells
               IN /\ rec.rating = Normalizes(cells[3], "float")
                  /\ rec.acs = Normalizes(cells[4], "int")
                  /\ rec.kills = Normalizes(cells[5], "int")
                  /\ rec.deaths = Normalizes(cells[6], "int")
                  /\ rec.assists = Normalizes(cells[7], "int")
                  /\ rec.kast_percentage = Normalizes(cells[9], "float")
                  /\ cells[10].combat_both = None => rec.adr = Normalizes(cells[10], "int")
                  /\ rec.headshot_percentage = Normalizes(cells[11], "float")
                  /\ rec.first_kills = Normalizes(cells[12], "int")
                  /\ rec.first_deaths = Normalizes(cells[13], "int")

----------------------------------------------------------------------------
(* fetch_html step by step, for the requests of one pipeline run made one  *)
(* after the other.  call.events is what has happened so far: "request"    *)
(* the HTTP attempt of line 82, "sleep" the time.sleep(1.5) of line 92,    *)
(* "return" and "raise" the ways fetch_html is left.                        *)

MaxFetches == 2

\* what requests.get can do: the responses of a list page, and an
\* exception that is no RequestException
FetchAttempts ==
    Responses \cup {[raises |-> "KeyboardInterrupt", status_code |-> 0, text |-> None]}

\* a fetch_html whose handler returns without the finally block
AfterHandlerReturn(path) == IF path = "except" THEN "leave" ELSE "finally"

\* lines 89-92: the finally block runs however the try statement is left,
\* by the return of line 85, by the handler's return, by an exception
AfterTry(path) == "finally"

InitCooldown ==
    /\ NoCommand
    /\ call \in {[responses |-> rs, n |-> 1, at |-> "get", outcome |-> Gives(None),
                  events |-> <<>>] :
                    rs \in UNION {[1..k -> FetchAttempts] : k \in 1..MaxFetches}}
    /\ returned = None

Fetches(at) == call # None /\ returned = None /\ call.at = at

\* line 82: requests.get(url, headers=HEADERS, timeout=15)
RequestsGet ==
    /\ Fetches("get")
    /\ LET response == call.responses[call.n]
       IN call' = [call EXCEPT
              !.events = Append(@, "request"),
              !.outcome = IF response.raises # "" THEN Raise(response.raises) ELSE @,
              !.at = IF response.raises = "" THEN "raise_for_status"
                     ELSE IF response.raises \in RequestExceptions THEN "except"
                     ELSE AfterTry("raise")]
    /\ UNCHANGED returned
    /\ UNCHANGED commandVars

\* lines 83-85: raise_for_status, return response.text
RaiseForStatusOrReturn ==
    /\ Fetches("raise_for_status")
    /\ LET response == call.responses[call.n]
       IN call' = IF RaiseForStatus(response).error # ""
                  THEN [call EXCEPT !.outcome = RaiseForStatus(response), !.at = "except"]
                  ELSE [call EXCEPT !.outcome = Gives(response.text),
                                    !.at = AfterTry("return")]
    /\ UNCHANGED returned
    /\ UNCHANGED commandVars

\* lines 86-88: the handler logs and returns None
ExceptRequestException ==
    /\ Fetches("except")
    /\ call' = [call EXCEPT !.outcome = CatchRequestException(@),
                            !.at = AfterTry("except")]
    /\ UNCHANGED returned
    /\ UNCHANGED commandVars

\* lines 90-92: time.sleep(1.5)
FinallySleep ==
    /\ Fetches("finally")
    /\ call' = [call EXCEPT !.events = Append(@, "sleep"), !.at = "leave"]
    /\ UNCHANGED returned
    /\ UNCHANGED commandVars

\* fetch_html is left; the run goes on to its next request, or ends after
\* the last one and on an exception
LeaveFetchHtml ==
    /\ Fetches("leave")
    /\ LET more == call.outcome.error = "" /\ call.n < Len(call.responses)
       IN /\ call' = [call EXCEPT
                 !.events = Append(@, IF call.outcome.error = "" THEN "return" ELSE "raise"),
                 !.n = IF more THEN @ + 1 ELSE @,
                 !.at = IF more THEN "get" ELSE "done"]
          /\ returned' = IF more THEN None ELSE Some(call.outcome)
    /\ UNCHANGED commandVars

NextCooldown ==
    \/ RequestsGet
    \/ RaiseForStatusOrReturn
    \/ ExceptRequestException
    \/ FinallySleep
    \/ LeaveFetchHtml

SpecCooldown == InitCooldown /\ [][NextCooldown]_vars

FetchEvents == call.events

\* C25: after the HTTP attempt of a call of fetch_html and before the call
\* is left, by a return or by an exception, the cooldown is made, whether
\* the attempt succeeded or failed; so a cooldown lies between any two
\* requests of a run.
C25_CooldownAfterEveryAttempt ==
    \A i \in 1..Len(FetchEvents) : \A j \in (i + 1)..Len(FetchEvents) :
        (FetchEvents[i] = "request" /\ FetchEvents[j] \in {"request", "return", "raise"}) =>
            \E k \in (i + 1)..(j - 1) : FetchEvents[k] = "sleep"

\* a run of two requests, the first timed out and the second answered, each
\* followed by its cooldown
C25_Witness ==
    /\ returned # None
    /\ call.responses[1].raises = "Timeout"
    /\ Len(call.responses) = 2
    /\ call.responses[2].status_code = 200
    /\ FetchEvents = <<"request", "sleep", "return", "request", "sleep", "return">>

----------------------------------------------------------------------------
(* Properties of save_match_details over one parsed list *)

\* the records of the list name their players by name and id, each player
\* under one name and one id
WellNamed(detailed_stats) ==
    \A i \in 1..Len(detailed_stats) :
        /\ Truthy(detailed_stats[i].player_name)
        /\ Truthy(detailed_stats[i].player_source_id)
        /\ \A j \in 1..Len(detailed_stats) :
               (detailed_stats[i].player_name = detailed_stats[j].player_name)
                   <=> (detailed_stats[i].player_source_id
                            = detailed_stats[j].player_source_id)

NamesAPlayerTwice(detailed_stats) ==
    \E i, j \in 1..Len(detailed_stats) :
        i # j /\ detailed_stats[i].player_source_id = detailed_stats[j].player_source_id

\* the committed stats rows of the player of a record, for the run's match
CommittedStatsOf(player_data) ==
    {s \in dbStats :
        /\ s.match_id = match_id
        /\ \E p \in dbPlayers :
               /\ p.id = s.player_id
               /\ p.player_source_id = player_data.player_source_id}

FirstRecordOf(detailed_stats, player_data) ==
    detailed_stats[CHOOSE i \in 1..Len(detailed_stats) :
        /\ detailed_stats[i].player_source_id = player_data.player_source_id
        /\ \A j \in 1..(i - 1) :
               detailed_stats[j].player_source_id # player_data.player_source_id]

\* C26: when the list names one player twice, the run commits exactly one
\* stats row for that player, with the values of the first of the two
\* records, and the rows of the other players of the list, wherever the
\* two records stand in the list.
C26_DuplicatePlayerCommittedOnce ==
    (/\ pc = "done"
     /\ detailRuns = 1
     /\ WellNamed(batch)
     /\ NamesAPlayerTwice(batch)) =>
        \A i \in 1..Len(batch) :
            /\ Cardinality(CommittedStatsOf(batch[i])) = 1
            /\ \A s \in CommittedStatsOf(batch[i]) :
                   s.payload = StatsPayload(FirstRecordOf(batch, batch[i]))

\* the same with another player's record between the two
C26_HoldsWithAPlayerBetween ==
    (/\ pc = "done"
     /\ detailRuns = 1
     /\ WellNamed(batch)
     /\ Len(batch) = 3
     /\ batch[1].player_source_id = batch[3].player_source_id
     /\ batch[1].player_source_id # batch[2].player_source_id) =>
        \A i \in 1..Len(batch) :
            /\ Cardinality(CommittedStatsOf(batch[i])) = 1
            /\ \A s \in CommittedStatsOf(batch[i]) :
                   s.payload = StatsPayload(FirstRecordOf(batch, batch[i]))

\* both pages of the run were fetched
BothFetched ==
    /\ Fetching
    /\ ~FetchFailed(call.responses[1])
    /\ ~FetchFailed(call.responses[2])

RecordsOf(matches, id) == {i \in 1..Len(matches) : matches[i].match_source_id = id}

\* C27: for a match id on both the upcoming page and the results page, the
\* batch holds exactly one record, and it is the results page's record,
\* field for field, the fields that are None on the results page included.
C27_ResultsRecordReplacesUpcoming ==
    BothFetched =>
        \A i \in 1..Len(FetchedPage(call.responses[1])) :
            \A j \in 1..Len(FetchedPage(call.responses[2])) :
                LET upcoming == FetchedPage(call.responses[1])[i]
                    completed == FetchedPage(call.responses[2])[j]
                IN upcoming.match_source_id = completed.match_source_id =>
                       /\ Cardinality(RecordsOf(batch, completed.match_source_id)) = 1
                       /\ \A k \in RecordsOf(batch, completed.match_source_id) :
                              batch[k] = completed

\* an id with its scores on the upcoming page and without them on the
\* results page: the batch's record has no scores
C27_Witness ==
    /\ BothFetched
    /\ Len(FetchedPage(call.responses[1])) = 1
    /\ Len(FetchedPage(call.responses[2])) = 1
    /\ FetchedPage(call.responses[1])[1].match_source_id = "450053"
    /\ FetchedPage(call.responses[2])[1].match_source_id = "450053"
    /\ FetchedPage(call.responses[1])[1].team1_score = Some(13)
    /\ FetchedPage(call.responses[2])[1].team1_score = None
    /\ Len(batch) = 1
    /\ batch[1].team1_score = None
    /\ batch[1].status = "Upcoming"

\* the record of this turn carries an id stored for no player and the name
\* of a stored player
NewIdUnderStoredName(player_data) ==
    /\ Truthy(player_data.player_source_id)
    /\ Truthy(player_data.player_name)
    /\ {r \in sess.players : r.player_source_id = player_data.player_source_id} = {}
    /\ {r \in sess.players : r.name = player_data.player_name} # {}
    /\ \A r \in sess.players :
           r.name = player_data.player_name => r.player_source_id # None

C29_MatchesNeverWritten ==
    [][/\ dbMatches' = dbMatches
       /\ (pc = "idle" /\ pc' = "done") =>
              (dbPlayers' = dbPlayers /\ dbStats' = dbStats /\ ~committed')
       /\ ~(pc = "save_match_details" /\ committed') =>
              (dbPlayers' = dbPlayers /\ dbStats' = dbStats)]_vars

\* a run has committed players and stats, and the matches are those the
\* database held at the start
C29_Witness ==
    /\ pc = "done"
    /\ committed
    /\ dbPlayers # {}
    /\ dbStats # {}
    /\ dbMatches \in StoredMatches
    /\ \E r \in dbMatches : r.id = match_id /\ r.status = "Completed"

----------------------------------------------------------------------------
(* The copy of _safe_cast in data_visualization/image_generator.py, and    *)
(* the two copies called with the same arguments.                          *)

\* image_generator.py lines 258-260: float(cleaned_value) as it is
CastFloatDirectly(cleaned_value, default) == PyFloat(cleaned_value)

\* image_generator._safe_cast(value, cast_type, default) for a value that
\* is None or a str
ImageSafeCast(value, cast_type, default) ==
    IF value = None THEN Gives(default)
    ELSE LET cleaned_value == Cleaned(value[1], cast_type)
         IN IF cleaned_value = <<>> THEN Gives(default)
            ELSE Catch(CASE cast_type = "int" -> CastInt(cleaned_value, default)
                         [] cast_type = "float" -> CastFloatDirectly(cleaned_value, default)
                         [] cast_type = "str" -> CastStr(cleaned_value, default)
                         [] OTHER -> Gives(default),
                       default)

\* the copy for a value that is an int
ImageSafeCastOfInt(n, cast_type, default) ==
    ImageSafeCast(Some(PyStr(n)), cast_type, default)

\* both copies called with a str or None
CallBothCopies ==
    /\ call # None
    /\ returned = None
    /\ ~call.number
    /\ returned' = Some([scraper |-> SafeCast(call.value, call.cast_type, call.default),
                         image |-> ImageSafeCast(call.value, call.cast_type, call.default)])
    /\ UNCHANGED call
    /\ UNCHANGED commandVars

\* both copies called with an int
CallBothCopiesOfInt ==
    /\ call # None
    /\ returned = None
    /\ call.number
    /\ returned' = Some([scraper |-> SafeCastOfInt(call.value, call.cast_type, call.default),
                         image |-> ImageSafeCastOfInt(call.value, call.cast_type,
                                                      call.default)])
    /\ UNCHANGED call
    /\ UNCHANGED commandVars

NextBothCopies ==
    \/ CallBothCopies
    \/ CallBothCopiesOfInt

SpecBothCopies == InitSafeCast /\ [][NextBothCopies]_vars

\* C30: for every value, target type and default the scraper's _safe_cast
\* and the image generator's return the same.
C30_CopiesAgree ==
    (returned # None) => returned[1].scraper = returned[1].image

\* the copies agree on every call for an integer and on every call with a
\* value that is an int
C30_CopiesAgreeOnIntegers ==
    (returned # None /\ (call.cast_type = "int" \/ call.number)) =>
        returned[1].scraper = returned[1].image

====
